---------------------------- MODULE Spec2Model ----------------------------
(***************************************************************************)
(* A model of suppaftp-client: the MLST/MLSD fact parsers of src/mlst.rs   *)
(* and the reconnect-and-retry session controller of src/client.rs.        *)
(*                                                                         *)
(* Strings are sequences of one-character strings.  Option<T> is a         *)
(* sequence of length 0 (None) or 1 (Some).  A call that panics ends in    *)
(* the outcome "Panic".                                                    *)
(***************************************************************************)
EXTENDS Integers, Sequences, FiniteSets, TLC

VARIABLES
    settings,            \* FtpClient.settings: the answers of the FtpClientSettings object
    settings_list_mode,  \* FtpClient.settings_list_mode
    effective_list_mode, \* FtpClient.effective_list_mode
    ftp,                 \* FtpClient.ftp: Option<FtpStream>, a session handle
    has_feat,            \* FtpClient.has_feat
    features,            \* FtpClient.features
    current_path,        \* FtpClient.current_path
    pc,                  \* the caller's position: idle, inside a call, panicked, or a pure function's run
    call_op,             \* the operation of the current/last call
    call_arg,            \* the argument of the call in progress (chdir's path)
    ret,                 \* the value the last call returned
    log,                 \* the commands issued to the collaborator by the current/last call
    attempts,            \* the collaborator's replies to the command, per attempt of the call
    transitions,         \* what each connect/reconnect transition of the call returned
    lines_seen,          \* the response lines the last listing command returned
    ftp_at_call,         \* FtpClient.ftp as it was when the last call started
    sessions,            \* sessions opened so far by FtpStream::connect
    feat_issued,         \* FEAT commands issued so far
    feat_ok,             \* FEAT commands answered successfully so far
    first_list_mode,     \* the strategy the first list() call dispatched with
    last_list_mode,      \* the strategy the latest list() call dispatched with
    session_dir,         \* the working directory of the session of the handle held
    navigated,           \* where the last successful chdir() or cdup() call went
    fn_arg,              \* the input of a pure function's run
    fn_ret               \* the output of a pure function's run

\* The controller and the trace of its calls
client_vars == << settings, settings_list_mode, effective_list_mode, ftp, has_feat,
                  features, current_path, call_op, call_arg, ret, log, attempts,
                  transitions, lines_seen, ftp_at_call, sessions, feat_issued, feat_ok,
                  first_list_mode, last_list_mode, session_dir, navigated >>

vars == << client_vars, pc, fn_arg, fn_ret >>

----------------------------------------------------------------------------
(* Option<T> and characters *)

None == << >>

Some(v) == << v >>

is_some(o) == Len(o) = 1

unwrap(o) == o[1]

set_min(S) == CHOOSE x \in S : \A y \in S : x <= y

set_max(S) == CHOOSE x \in S : \A y \in S : x >= y

DigitChars == << "0", "1", "2", "3", "4", "5", "6", "7", "8", "9" >>

UpperChars == << "A", "B", "C", "D", "E", "F", "G", "H", "I", "J", "K", "L", "M",
                 "N", "O", "P", "Q", "R", "S", "T", "U", "V", "W", "X", "Y", "Z" >>

LowerChars == << "a", "b", "c", "d", "e", "f", "g", "h", "i", "j", "k", "l", "m",
                 "n", "o", "p", "q", "r", "s", "t", "u", "v", "w", "x", "y", "z" >>

\* char::is_ascii_digit
is_ascii_digit(ch) == \E i \in 1..10 : DigitChars[i] = ch

\* char::to_digit, on an ASCII digit
digit_value(ch) == (CHOOSE i \in 1..10 : DigitChars[i] = ch) - 1

\* char::to_ascii_lowercase
char_to_ascii_lowercase(ch) ==
    IF \E i \in 1..26 : UpperChars[i] = ch
    THEN LowerChars[CHOOSE i \in 1..26 : UpperChars[i] = ch]
    ELSE ch

\* str::to_ascii_lowercase
to_ascii_lowercase(s) == [ i \in 1..Len(s) |-> char_to_ascii_lowercase(s[i]) ]

\* A character outside ASCII (U+00E9), two bytes in UTF-8
NonAscii == "U+00E9"

\* The UTF-8 width of a character: the model's one non-ASCII character takes two bytes.
utf8_width(ch) == IF ch = NonAscii THEN 2 ELSE 1

RECURSIVE str_len(_)
\* str::len: the length in bytes
str_len(s) == IF s = << >> THEN 0 ELSE utf8_width(Head(s)) + str_len(Tail(s))

RECURSIVE digits_value(_, _)
\* The value of a sequence of digits in the given radix
digits_value(s, radix) ==
    IF s = << >> THEN 0
    ELSE digits_value(SubSeq(s, 1, Len(s) - 1), radix) * radix + digit_value(s[Len(s)])

----------------------------------------------------------------------------
(* parse_mlst_date, src/mlst.rs *)

is_leap_year(year) == (year % 4 = 0 /\ year % 100 # 0) \/ year % 400 = 0

days_in_month(year, month) ==
    IF month = 2 THEN (IF is_leap_year(year) THEN 29 ELSE 28)
    ELSE IF month \in {4, 6, 9, 11} THEN 30 ELSE 31

\* chrono's NaiveDate::from_ymd returns for these arguments and panics for all others
from_ymd_valid(year, month, day) ==
    /\ month \in 1..12
    /\ day >= 1
    /\ day <= days_in_month(year, month)

\* chrono's NaiveTime::from_hms and from_hms_milli return for these arguments and
\* panic for all others
from_hms_milli_valid(hour, minute, second, ms) ==
    /\ hour < 24
    /\ minute < 60
    /\ second < 60
    /\ ms < 2000

NoDateTime == [ year |-> 0, month |-> 0, day |-> 0, hour |-> 0, minute |-> 0,
                second |-> 0, ms |-> 0 ]

DateNone == [ tag |-> "None", dt |-> NoDateTime ]

DatePanic == [ tag |-> "Panic", dt |-> NoDateTime ]

DateSome(dt) == [ tag |-> "Some", dt |-> dt ]

\* mlst.rs 143-151: every character is a digit, but for the '.' of the 18-byte form
date_chars_ok(s, has_ms) ==
    \A i \in 1..Len(s) :
        IF has_ms /\ i - 1 = 14 THEN s[i] = "." ELSE is_ascii_digit(s[i])

\* mlst.rs 162-172: NaiveDateTime::new(NaiveDate::from_ymd(..), NaiveTime::from_hms(..)),
\* which panics when a constructor does
naive_datetime(year, month, day, hour, minute, second, ms) ==
    IF from_ymd_valid(year, month, day) /\ from_hms_milli_valid(hour, minute, second, ms)
    THEN DateSome([ year |-> year, month |-> month, day |-> day, hour |-> hour,
                    minute |-> minute, second |-> second, ms |-> ms ])
    ELSE DatePanic

\* mlst.rs 155-165: the fields sliced at their fixed offsets and parsed
date_from_fields(s, has_ms) ==
    naive_datetime(digits_value(SubSeq(s, 1, 4), 10),
                   digits_value(SubSeq(s, 5, 6), 10),
                   digits_value(SubSeq(s, 7, 8), 10),
                   digits_value(SubSeq(s, 9, 10), 10),
                   digits_value(SubSeq(s, 11, 12), 10),
                   digits_value(SubSeq(s, 13, 14), 10),
                   IF has_ms THEN digits_value(SubSeq(s, 16, 18), 10) ELSE 0)

\* mlst.rs 143-172, the length known
date_checked(s, has_ms) ==
    IF ~ date_chars_ok(s, has_ms) THEN DateNone ELSE date_from_fields(s, has_ms)

\* mlst.rs 131-141: the length decides has_ms
date_of_len(s, n) ==
    IF n \notin {14, 18} THEN DateNone ELSE date_checked(s, n = 18)

parse_mlst_date(s) == date_of_len(s, str_len(s))

----------------------------------------------------------------------------
(* Number parsing: Rust's str::parse for unsigned integers and from_str_radix *)

RECURSIVE strip_zeros(_)
strip_zeros(s) == IF Len(s) > 1 /\ Head(s) = "0" THEN strip_zeros(Tail(s)) ELSE s

RECURSIVE digits_lex_le(_, _)
\* a <= b for digit strings of the same length
digits_lex_le(a, b) ==
    IF a = << >> THEN TRUE
    ELSE IF digit_value(Head(a)) # digit_value(Head(b))
         THEN digit_value(Head(a)) < digit_value(Head(b))
         ELSE digits_lex_le(Tail(a), Tail(b))

\* a <= b for digit strings without leading zeros, of any length
digits_le(a, b) ==
    \/ Len(a) < Len(b)
    \/ Len(a) = Len(b) /\ digits_lex_le(a, b)

U64MaxDigits == << "1","8","4","4","6","7","4","4","0","7","3","7","0","9","5","5","1","6","1","5" >>

U32MaxDigits == << "4","2","9","4","9","6","7","2","9","5" >>

\* u16::MAX in base 8
U16MaxOctal == << "1","7","7","7","7","7" >>

\* One or more digits of the radix, the value no larger than the type's maximum
\* (given as digits in the same radix)
parse_digits(body, radix, max_digits) ==
    IF /\ body # << >>
       /\ \A i \in 1..Len(body) : is_ascii_digit(body[i]) /\ digit_value(body[i]) < radix
       /\ digits_le(strip_zeros(body), max_digits)
    THEN Some(digits_value(body, radix))
    ELSE None

\* An unsigned parse: an optional '+', then the digits
parse_unsigned(s, radix, max_digits) ==
    parse_digits(IF s # << >> /\ Head(s) = "+" THEN Tail(s) ELSE s, radix, max_digits)

----------------------------------------------------------------------------
(* FtpItemType, src/types.rs; MlstFilePermissions and MlstFact, src/mlst.rs *)

s_file == << "f", "i", "l", "e" >>
s_cdir == << "c", "d", "i", "r" >>
s_pdir == << "p", "d", "i", "r" >>
s_dir  == << "d", "i", "r" >>

\* types.rs 27-33: the match on the lower-cased value; None stands for Err(SyntaxError)
item_type_of(t) ==
    IF t = s_file THEN Some("File")
    ELSE IF t = s_cdir THEN Some("CurrentDir")
    ELSE IF t = s_pdir THEN Some("ParentDir")
    ELSE IF t = s_dir THEN Some("Dir")
    ELSE None

\* TryFrom<&str> for FtpItemType
FtpItemType_try_from(ty) == item_type_of(to_ascii_lowercase(ty))

\* FtpItemType::is_dir
is_dir(ty) == ty # "File"

PermDefault == [ append |-> FALSE, create |-> FALSE, delete |-> FALSE, enter |-> FALSE,
                 rename |-> FALSE, list |-> FALSE, mkdir |-> FALSE, purge |-> FALSE,
                 read |-> FALSE, write |-> FALSE ]

\* mlst.rs 32-66: the match on the lower-cased letter; None stands for the catch-all arm
perm_letter(perm, c) ==
    IF c = "a" THEN Some([perm EXCEPT !.append = TRUE])
    ELSE IF c = "c" THEN Some([perm EXCEPT !.create = TRUE])
    ELSE IF c = "d" THEN Some([perm EXCEPT !.delete = TRUE])
    ELSE IF c = "e" THEN Some([perm EXCEPT !.enter = TRUE])
    ELSE IF c = "f" THEN Some([perm EXCEPT !.rename = TRUE])
    ELSE IF c = "l" THEN Some([perm EXCEPT !.list = TRUE])
    ELSE IF c = "m" THEN Some([perm EXCEPT !.mkdir = TRUE])
    ELSE IF c = "p" THEN Some([perm EXCEPT !.purge = TRUE])
    ELSE IF c = "r" THEN Some([perm EXCEPT !.read = TRUE])
    ELSE IF c = "w" THEN Some([perm EXCEPT !.write = TRUE])
    ELSE None

\* perm_set without the lower-casing of the letter
perm_set_exact(perm, ch) == perm_letter(perm, ch)

\* mlst.rs 32: match ch.to_ascii_lowercase()
perm_set(perm, ch) == perm_letter(perm, char_to_ascii_lowercase(ch))

RECURSIVE perm_fold(_, _)

\* mlst.rs 31-67: the loop goes on after a letter, and ends at anything else
perm_next(p, rest) == IF is_some(p) THEN perm_fold(unwrap(p), rest) ELSE None

perm_fold(perm, s) ==
    IF s = << >> THEN Some(perm) ELSE perm_next(perm_set(perm, Head(s)), Tail(s))

\* TryFrom<&str> for MlstFilePermissions: None stands for Err(SyntaxError)
MlstFilePermissions_try_from(fact_value) == perm_fold(PermDefault, fact_value)

\* MlstFilePermissions::as_pex
as_pex(perm) ==
    (IF perm.read THEN 4 ELSE 0) + (IF perm.write THEN 2 ELSE 0) + (IF perm.list THEN 1 ELSE 0)

s_size   == << "s", "i", "z", "e" >>
s_modify == << "m", "o", "d", "i", "f", "y" >>
s_create == << "c", "r", "e", "a", "t", "e" >>
s_type   == << "t", "y", "p", "e" >>
s_unique == << "u", "n", "i", "q", "u", "e" >>
s_perm   == << "p", "e", "r", "m" >>
s_lang   == << "l", "a", "n", "g" >>
s_media_type == << "m", "e", "d", "i", "a", "-", "t", "y", "p", "e" >>
s_charset    == << "c", "h", "a", "r", "s", "e", "t" >>
s_unix       == << "u", "n", "i", "x", "." >>
s_unix_owner     == s_unix \o << "o", "w", "n", "e", "r" >>
s_unix_ownername == s_unix_owner \o << "n", "a", "m", "e" >>
s_unix_group     == s_unix \o << "g", "r", "o", "u", "p" >>
s_unix_groupname == s_unix_group \o << "n", "a", "m", "e" >>
s_unix_mode      == s_unix \o << "m", "o", "d", "e" >>

\* A fact kind of the closed set
known_fact(kind) == [ kind |-> kind, name |-> << >> ]

\* mlst.rs 105-121: the match on the lower-cased name
fact_of(n) ==
    IF n = s_size THEN known_fact("Size")
    ELSE IF n = s_modify THEN known_fact("Modify")
    ELSE IF n = s_create THEN known_fact("Create")
    ELSE IF n = s_type THEN known_fact("Ty")
    ELSE IF n = s_unique THEN known_fact("Unique")
    ELSE IF n = s_perm THEN known_fact("Perm")
    ELSE IF n = s_lang THEN known_fact("Lang")
    ELSE IF n = s_media_type THEN known_fact("MediaType")
    ELSE IF n = s_charset THEN known_fact("Charset")
    ELSE IF n = s_unix_owner THEN known_fact("UnixOwner")
    ELSE IF n = s_unix_ownername THEN known_fact("UnixOwnerName")
    ELSE IF n = s_unix_group THEN known_fact("UnixGroup")
    ELSE IF n = s_unix_groupname THEN known_fact("UnixGroupName")
    ELSE IF n = s_unix_mode THEN known_fact("UnixMode")
    ELSE [ kind |-> "Other", name |-> n ]

\* MlstFact::from without the lower-casing of the name
MlstFact_from_exact(name) == fact_of(name)

\* From<&str> for MlstFact: the fact kind, and for Other the lower-cased name
MlstFact_from(name) == fact_of(to_ascii_lowercase(name))

----------------------------------------------------------------------------
(* parse_mlst_line, src/mlst.rs *)

SPACE == " "

EQUAL == "="

SEMICOLON == ";"

\* The fields of FtpItem (src/types.rs) that parse_mlst_line collects: file_ty,
\* file_size, ... file_others, all None at the start (mlst.rs 191-205)
NoFacts == [ ty |-> None, size |-> None, modified |-> None, created |-> None,
             unique |-> None, perm |-> None, lang |-> None, media_type |-> None,
             charset |-> None, unix_owner |-> None, unix_ownername |-> None,
             unix_group |-> None, unix_groupname |-> None, unix_mode |-> None,
             others |-> None ]

\* FtpItem: the collected facts with the name, and the type unwrapped (mlst.rs 319-336)
FtpItem(name, ty, f) ==
    [ name |-> name, ty |-> ty, size |-> f.size, modified |-> f.modified,
      created |-> f.created, unique |-> f.unique, perm |-> f.perm, lang |-> f.lang,
      media_type |-> f.media_type, charset |-> f.charset, unix_owner |-> f.unix_owner,
      unix_ownername |-> f.unix_ownername, unix_group |-> f.unix_group,
      unix_groupname |-> f.unix_groupname, unix_mode |-> f.unix_mode,
      others |-> f.others ]

NoItem == FtpItem(<< >>, "File", NoFacts)

\* Result<FtpItem, list::ParseError>, or the panic that unwinds out of the call
ParseOk(item) == [ tag |-> "Ok", err |-> "", item |-> item ]

ParseErr(e) == [ tag |-> "Err", err |-> e, item |-> NoItem ]

ParsePanic == [ tag |-> "Panic", err |-> "", item |-> NoItem ]

\* The outcome of one arm of the dispatch: the facts so far, an error or a panic
FactOk(f) == [ tag |-> "Ok", err |-> "", facts |-> f ]

FactErr(e) == [ tag |-> "Err", err |-> e, facts |-> NoFacts ]

FactPanic == [ tag |-> "Panic", err |-> "", facts |-> NoFacts ]

\* HashMap::insert: a later value for a key replaces the earlier one
map_insert(m, k, v) == [ x \in (DOMAIN m) \cup {k} |-> IF x = k THEN v ELSE m[x] ]

\* others_insert with the value of a name already there kept
others_insert_first(others, k, v) ==
    IF is_some(others) /\ k \in DOMAIN unwrap(others) THEN others
    ELSE Some(map_insert(IF is_some(others) THEN unwrap(others) ELSE << >>, k, v))

\* file_others.get_or_insert_with(|| HashMap::new()).insert(fact_name, fact_value)
others_insert(others, k, v) ==
    Some(map_insert(IF is_some(others) THEN unwrap(others) ELSE << >>, k, v))

\* mlst.rs 261, 264: parse_mlst_date(..).ok_or(InvalidDate)?
date_fact_of(f, field, d) ==
    IF d.tag = "Panic" THEN FactPanic
    ELSE IF d.tag = "None" THEN FactErr("InvalidDate")
    ELSE FactOk([f EXCEPT ![field] = Some(d.dt)])

\* mlst.rs 260-265: a Modify or Create fact
date_fact(f, field, fact_value) == date_fact_of(f, field, parse_mlst_date(fact_value))

\* A fact whose value is parsed: an Option result, None giving the error
parsed_fact(f, field, parsed, err) ==
    IF is_some(parsed) THEN FactOk([f EXCEPT ![field] = Some(unwrap(parsed))])
    ELSE FactErr(err)

\* mlst.rs 256-302: the arms of the match on the fact kind
dispatch_kind(f, fact, fact_value) ==
    IF fact.kind = "Size"
    THEN parsed_fact(f, "size", parse_unsigned(fact_value, 10, U64MaxDigits), "BadSize")
    ELSE IF fact.kind = "Modify" THEN date_fact(f, "modified", fact_value)
    ELSE IF fact.kind = "Create" THEN date_fact(f, "created", fact_value)
    ELSE IF fact.kind = "Ty"
    THEN parsed_fact(f, "ty", FtpItemType_try_from(fact_value), "SyntaxError")
    ELSE IF fact.kind = "Unique" THEN FactOk([f EXCEPT !.unique = Some(fact_value)])
    ELSE IF fact.kind = "Perm"
    THEN parsed_fact(f, "perm", MlstFilePermissions_try_from(fact_value), "SyntaxError")
    ELSE IF fact.kind = "Lang" THEN FactOk([f EXCEPT !.lang = Some(fact_value)])
    ELSE IF fact.kind = "MediaType" THEN FactOk([f EXCEPT !.media_type = Some(fact_value)])
    ELSE IF fact.kind = "Charset" THEN FactOk([f EXCEPT !.charset = Some(fact_value)])
    ELSE IF fact.kind = "UnixOwner"
    THEN parsed_fact(f, "unix_owner", parse_unsigned(fact_value, 10, U32MaxDigits), "SyntaxError")
    ELSE IF fact.kind = "UnixOwnerName"
    THEN FactOk([f EXCEPT !.unix_ownername = Some(fact_value)])
    ELSE IF fact.kind = "UnixGroup"
    THEN parsed_fact(f, "unix_group", parse_unsigned(fact_value, 10, U32MaxDigits), "SyntaxError")
    ELSE IF fact.kind = "UnixGroupName"
    THEN FactOk([f EXCEPT !.unix_groupname = Some(fact_value)])
    ELSE IF fact.kind = "UnixMode"
    THEN parsed_fact(f, "unix_mode", parse_unsigned(fact_value, 8, U16MaxOctal), "SyntaxError")
    ELSE FactOk([f EXCEPT !.others = others_insert(f.others, fact.name, fact_value)])

\* mlst.rs 256: match fact_name.as_str().into()
dispatch_fact(f, fact_name, fact_value) ==
    dispatch_kind(f, MlstFact_from(fact_name), fact_value)

\* line_finish with a default for a missing type
line_finish_default_type(rest, f) ==
    IF rest = << >> THEN ParseErr("SyntaxError")
    ELSE ParseOk(FtpItem(rest, IF is_some(f.ty) THEN unwrap(f.ty) ELSE "File", f))

\* mlst.rs 312-338: what follows the loop; rest is what the iterator has not consumed
line_finish(rest, f) ==
    IF rest = << >> THEN ParseErr("SyntaxError")
    ELSE IF ~ is_some(f.ty) THEN ParseErr("SyntaxError")
    ELSE ParseOk(FtpItem(rest, unwrap(f.ty), f))

\* mlst.rs 223-250: characters are pushed to the buffer of the state up to the next
\* SPACE, EQUAL or SEMICOLON; its position, or past the end when there is none
next_delimiter(line, i) ==
    set_min({ j \in i..Len(line) : line[j] \in { SPACE, EQUAL, SEMICOLON } }
            \cup { Len(line) + 1 })

RECURSIVE line_scan(_, _, _, _, _)

\* mlst.rs 256-307: `?` leaves the function with the fact's error; otherwise the
\* buffers are cleared and the scan goes on in Name state after the character at j
line_after_fact(line, j, d) ==
    IF d.tag = "Panic" THEN ParsePanic
    ELSE IF d.tag = "Err" THEN ParseErr(d.err)
    ELSE line_scan(line, j + 1, "Name", << >>, d.facts)

\* line_name with the file name read up to its next delimiter
line_name_token(line, j, fact_name, f) ==
    IF j > Len(line) THEN line_finish(<< >>, f)
    ELSE IF line[j] = SPACE
    THEN IF fact_name = << >>
         THEN line_finish(SubSeq(line, j + 1, next_delimiter(line, j + 1) - 1), f)
         ELSE ParseErr("SyntaxError")
    ELSE IF line[j] = SEMICOLON THEN ParseErr("SyntaxError")
    ELSE line_scan(line, j + 1, "Value", fact_name, f)

\* mlst.rs 225-241: Name state, the name pushed, at the delimiter at j
line_name(line, j, fact_name, f) ==
    IF j > Len(line) THEN line_finish(<< >>, f)
    ELSE IF line[j] = SPACE
    THEN IF fact_name = << >>
         THEN line_finish(SubSeq(line, j + 1, Len(line)), f)
         ELSE ParseErr("SyntaxError")
    ELSE IF line[j] = SEMICOLON THEN ParseErr("SyntaxError")
    ELSE line_scan(line, j + 1, "Value", fact_name, f)

\* line_value with a SPACE or EQUAL closing the pair as a SEMICOLON does
line_value_lenient(line, j, fact_name, fact_value, f) ==
    IF j > Len(line) THEN line_finish(<< >>, f)
    ELSE IF fact_name = << >> THEN ParseErr("SyntaxError")
    ELSE line_after_fact(line, j, dispatch_fact(f, fact_name, fact_value))

\* mlst.rs 242-308: Value state, the value pushed, at the delimiter at j
line_value(line, j, fact_name, fact_value, f) ==
    IF j > Len(line) THEN line_finish(<< >>, f)
    ELSE IF line[j] = SPACE \/ line[j] = EQUAL THEN ParseErr("SyntaxError")
    ELSE IF fact_name = << >> THEN ParseErr("SyntaxError")
    ELSE line_after_fact(line, j, dispatch_fact(f, fact_name, fact_value))

\* mlst.rs 224: match state, the characters from i up to j pushed
line_token(line, i, j, state, fact_name, f) ==
    IF state = "Name" THEN line_name(line, j, fact_name \o SubSeq(line, i, j - 1), f)
    ELSE line_value(line, j, fact_name, SubSeq(line, i, j - 1), f)

\* mlst.rs 223-310: the loop, from character i of the line
line_scan(line, i, state, fact_name, f) ==
    line_token(line, i, next_delimiter(line, i), state, fact_name, f)

\* mlst.rs 189-339
parse_mlst_line(line) == line_scan(line, 1, "Name", << >>, NoFacts)

----------------------------------------------------------------------------
(* FtpClientFeatures and parse_mlst_feat, src/client.rs and src/mlst.rs *)

\* char::is_whitespace, on the model's characters
is_whitespace(ch) == ch \in { " ", "\t" }

RECURSIVE trim_start(_)
trim_start(s) == IF s # << >> /\ is_whitespace(Head(s)) THEN trim_start(Tail(s)) ELSE s

RECURSIVE trim_end(_)
trim_end(s) ==
    IF s # << >> /\ is_whitespace(s[Len(s)]) THEN trim_end(SubSeq(s, 1, Len(s) - 1)) ELSE s

\* str::trim
trim(s) == trim_end(trim_start(s))

\* The positions of ch in s
positions(s, ch) == { i \in 1..Len(s) : s[i] = ch }

RECURSIVE split(_, _)
\* str::split(ch): the pieces between the occurrences of ch, the empty ones included
split(s, ch) ==
    IF positions(s, ch) = {} THEN << s >>
    ELSE LET i == set_min(positions(s, ch))
         IN  << SubSeq(s, 1, i - 1) >> \o split(SubSeq(s, i + 1, Len(s)), ch)

\* str::eq_ignore_ascii_case
eq_ignore_ascii_case(a, b) == to_ascii_lowercase(a) = to_ascii_lowercase(b)

\* mlst.rs 179-185: one piece of the MLST feature, its trailing '*' split off
mlst_feat_piece(piece) ==
    IF piece # << >> /\ piece[Len(piece)] = "*"
    THEN << MlstFact_from(SubSeq(piece, 1, Len(piece) - 1)), TRUE >>
    ELSE << MlstFact_from(piece), FALSE >>

RECURSIVE mlst_feat_pieces(_)
mlst_feat_pieces(pieces) ==
    IF pieces = << >> THEN << >>
    ELSE LET t == trim(Head(pieces))
         IN  (IF t = << >> THEN << >> ELSE << mlst_feat_piece(t) >>)
             \o mlst_feat_pieces(Tail(pieces))

parse_mlst_feat(line) == mlst_feat_pieces(split(line, ";"))

\* Default for FtpClientFeatures
FeaturesDefault ==
    [ clnt |-> FALSE, pasv |-> FALSE, utf8 |-> FALSE, mdtm |-> FALSE, size |-> FALSE,
      rest_stream |-> FALSE, tvfs |-> FALSE, mlst |-> None, auth_tls |-> FALSE,
      others |-> << >> ]

w_CLNT == << "C", "L", "N", "T" >>
w_PASV == << "P", "A", "S", "V" >>
w_UTF8 == << "U", "T", "F", "8" >>
w_MDTM == << "M", "D", "T", "M" >>
w_SIZE == << "S", "I", "Z", "E" >>
w_REST == << "R", "E", "S", "T" >>
w_TVFS == << "T", "V", "F", "S" >>
w_MLST == << "M", "L", "S", "T" >>
w_AUTH == << "A", "U", "T", "H" >>
w_STREAM == << "S", "T", "R", "E", "A", "M" >>
w_TLS == << "T", "L", "S" >>

\* The loop body with every line that sets nothing dropped
features_line_drop(result, line) ==
    IF trim(line) = w_CLNT THEN [result EXCEPT !.clnt = TRUE]
    ELSE IF trim(line) = w_PASV THEN [result EXCEPT !.pasv = TRUE]
    ELSE result

\* client.rs 48-90: the body of the loop, for one line
features_line(result, line) ==
    LET trimmed_line == trim(line)
        sp == positions(trimmed_line, " ")
        first_word == IF sp = {} THEN trimmed_line
                      ELSE trim(SubSeq(trimmed_line, 1, set_min(sp) - 1))
        tail == IF sp = {} THEN << >>
                ELSE trim(SubSeq(trimmed_line, set_min(sp) + 1, Len(trimmed_line)))
    IN  IF trimmed_line = << >> \/ \A i \in 1..Len(trimmed_line) : is_whitespace(trimmed_line[i])
        THEN result
        ELSE IF first_word = w_CLNT THEN [result EXCEPT !.clnt = TRUE]
        ELSE IF first_word = w_PASV THEN [result EXCEPT !.pasv = TRUE]
        ELSE IF first_word = w_UTF8 THEN [result EXCEPT !.utf8 = TRUE]
        ELSE IF first_word = w_MDTM THEN [result EXCEPT !.mdtm = TRUE]
        ELSE IF first_word = w_SIZE THEN [result EXCEPT !.size = TRUE]
        ELSE IF first_word = w_REST /\ eq_ignore_ascii_case(tail, w_STREAM)
        THEN [result EXCEPT !.rest_stream = TRUE]
        ELSE IF first_word = w_TVFS THEN [result EXCEPT !.tvfs = TRUE]
        ELSE IF first_word = w_MLST THEN [result EXCEPT !.mlst = Some(parse_mlst_feat(tail))]
        ELSE IF first_word = w_AUTH /\ eq_ignore_ascii_case(tail, w_TLS)
        THEN [result EXCEPT !.auth_tls = TRUE]
        ELSE [result EXCEPT !.others = Append(@, line)]

RECURSIVE features_fold(_, _)
features_fold(result, lines) ==
    IF lines = << >> THEN result
    ELSE features_fold(features_line(result, Head(lines)), Tail(lines))

\* From<Vec<String>> for FtpClientFeatures
FtpClientFeatures_from(lines) == features_fold(FeaturesDefault, lines)

----------------------------------------------------------------------------
(* The collaborator: suppaftp's FtpStream and the FtpClientSettings object *)

\* Model bounds: the sessions one controller opens, and the lines of a listing
MaxSessions == 2

MaxLines == 3

\* FtpError values: the kind, and the collaborator's answer to is_recoverable()
NoErr == [ kind |-> "", recoverable |-> FALSE ]

\* An error the controller makes itself
FtpError(kind) == [ kind |-> kind, recoverable |-> FALSE ]

BadResponse == FtpError("BadResponse")

SecureError == FtpError("SecureError")

\* The errors a command of the collaborator may fail with
CollabErrors ==
    { [ kind |-> "ConnectionError", recoverable |-> TRUE ],
      [ kind |-> "UnexpectedResponse", recoverable |-> TRUE ],
      [ kind |-> "UnexpectedResponse", recoverable |-> FALSE ] }

\* FtpError::is_recoverable (client.rs 177)
is_recoverable(e) == e.recoverable

p_start == << "/", "s" >>
p_a == << "a" >>
p_b == << "b" >>
p_up == << ".", "." >>

\* The working directory of a session: the directory it was started in (None: the
\* server's default) and where the last successful CWD or CDUP since then went
WorkDir(base, last) == [ base |-> base, last |-> last ]

\* The working directory of a session just opened
ServerDefault == WorkDir(None, None)

\* The directories a caller passes to chdir
Paths == { p_a, p_b }

\* The answers of an FtpClientSettings object that do not change over its life
SettingsSet ==
    [ use_feat : BOOLEAN, use_secure : BOOLEAN, remote_dir : { None, Some(p_start) } ]

\* The answers of FtpClientSettings::list_mode, which may differ from query to query
ListModeAnswers == { None, Some("List"), Some("Nlst"), Some("Mlsd"), Some("Stat") }

\* The bodies of the FEAT response
FeatResponses ==
    { << >>,
      << w_UTF8, w_MLST \o << " " >> \o s_type \o << "*", ";" >> \o s_size \o << ";" >>,
         << "X", "Y", "Z" >> >> }

\* The steps of the connect transition at which the collaborator can fail
ConnectSteps == { "connect", "feat", "tls_build", "into_secure", "login", "cwd" }

\* What the collaborator does during one connect transition: the step that fails
\* (none: all succeed), the error it fails with, and the FEAT response if asked
ConnectOutcomes ==
    { [ fail |-> "none", err |-> NoErr, feat |-> f ] : f \in FeatResponses }
    \cup { [ fail |-> st, err |-> e, feat |-> << >> ] : st \in ConnectSteps, e \in CollabErrors }

\* The outcomes under the controller's settings: a step that the settings rule
\* out is never taken, so it cannot fail
SettingsOutcomes ==
    { o \in ConnectOutcomes :
          /\ o.fail \in { "tls_build", "into_secure" } => settings.use_secure
          /\ o.fail = "cwd" => is_some(settings.remote_dir) }

\* One entry of the call's trace: a command issued on session h (0: none yet), and
\* whether it succeeded
Cmd(cmd, arg, h, ok) == [ cmd |-> cmd, arg |-> arg, h |-> h, ok |-> ok ]

\* The fields of FtpClient that a call changes, with the counters and the trace
RunState ==
    [ ftp |-> ftp, has_feat |-> has_feat, features |-> features, sessions |-> sessions,
      feat_issued |-> feat_issued, feat_ok |-> feat_ok, log |-> << >>,
      attempts |-> << >>, transitions |-> << >>, dir |-> session_dir,
      navigated |-> navigated ]

\* FtpResult<()>, FtpResult<FtpList>, or the panic that unwinds out of the call
FtpListDefault == [ current |-> None, parent |-> None, items |-> << >> ]

\* No pure function has run
NoCall == [ tag |-> "None" ]

NoReturn == [ tag |-> "None", err |-> NoErr, list |-> FtpListDefault, consumed |-> 0 ]

Ok(list, n) == [ tag |-> "Ok", err |-> NoErr, list |-> list, consumed |-> n ]

Err(e, n) == [ tag |-> "Err", err |-> e, list |-> FtpListDefault, consumed |-> n ]

Panic(n) == [ tag |-> "Panic", err |-> NoErr, list |-> FtpListDefault, consumed |-> n ]

----------------------------------------------------------------------------
(* FtpClient::reconnect, src/client.rs 227-263 *)

\* What a step of a call leaves: the fields, and what it returned
Step(r, result) == [ r |-> r, result |-> result ]

\* The handle installed after the directory of the last chdir() or cdup() is restored
install_restoring(r, h) ==
    IF is_some(navigated)
    THEN [r EXCEPT !.ftp = Some(h), !.dir = WorkDir(@.base, navigated),
                   !.log = Append(@, Cmd("CWD", unwrap(navigated), h, TRUE))]
    ELSE [r EXCEPT !.ftp = Some(h)]

\* reconnect_cwd with the directory change of client.rs 256-258 made
reconnect_cwd_restoring(r, o, h) ==
    IF is_some(settings.remote_dir)
    THEN LET r1 == [r EXCEPT !.log = Append(@, Cmd("CWD", unwrap(settings.remote_dir), h,
                                                   o.fail # "cwd")),
                             !.dir = WorkDir(settings.remote_dir, None)]
         IN  IF o.fail = "cwd" THEN Step(r1, Err(o.err, 0))
             ELSE Step(install_restoring(r1, h), Ok(FtpListDefault, 0))
    ELSE Step(install_restoring(r, h), Ok(FtpListDefault, 0))

\* client.rs 252-262: the starting directory, then the handle is installed
reconnect_cwd(r, o, h) ==
    IF is_some(settings.remote_dir)
    THEN LET r1 == [r EXCEPT !.log = Append(@, Cmd("CWD", unwrap(settings.remote_dir), h,
                                                   o.fail # "cwd"))]
         IN  IF o.fail = "cwd" THEN Step(r1, Err(o.err, 0))
             ELSE Step([r1 EXCEPT !.ftp = Some(h),
                                  !.dir = WorkDir(settings.remote_dir, None)],
                       Ok(FtpListDefault, 0))
    ELSE Step([r EXCEPT !.ftp = Some(h)], Ok(FtpListDefault, 0))

\* reconnect_login without the `?` on the login
reconnect_login_unchecked(r, o, h) ==
    reconnect_cwd([r EXCEPT !.log = Append(@, Cmd("LOGIN", << >>, h, o.fail # "login"))], o, h)

\* client.rs 250
reconnect_login(r, o, h) ==
    LET r1 == [r EXCEPT !.log = Append(@, Cmd("LOGIN", << >>, h, o.fail # "login"))]
    IN  IF o.fail = "login" THEN Step(r1, Err(o.err, 0))
        ELSE reconnect_cwd(r1, o, h)

\* client.rs 238-248: the TLS connector is built, then the session upgraded
reconnect_secure(r, o, h) ==
    IF settings.use_secure
    THEN LET r0 == [r EXCEPT !.log = Append(@, Cmd("TlsConnector", << >>, h,
                                                   o.fail # "tls_build"))]
              r1 == [r0 EXCEPT !.log = Append(@, Cmd("AUTH TLS", << >>, h,
                                                    o.fail # "into_secure"))]
         IN  IF o.fail = "tls_build" THEN Step(r0, Err(SecureError, 0))
             ELSE IF o.fail = "into_secure" THEN Step(r1, Err(o.err, 0))
             ELSE reconnect_login(r1, o, h)
    ELSE reconnect_login(r, o, h)

\* feat_wanted without the has_feat flag
feat_wanted_always(r) == settings.use_feat

\* client.rs 233: whether this transition asks for the features
feat_wanted(r) == ~ r.has_feat /\ settings.use_feat

\* reconnect_feat without self.has_feat = true
reconnect_feat_unflagged(r, o, h) ==
    IF feat_wanted(r)
    THEN LET r1 == [r EXCEPT !.log = Append(@, Cmd("FEAT", << >>, h, o.fail # "feat")),
                             !.feat_issued = @ + 1]
         IN  IF o.fail = "feat" THEN Step(r1, Err(o.err, 0))
             ELSE reconnect_secure([r1 EXCEPT !.features = FtpClientFeatures_from(o.feat),
                                              !.feat_ok = @ + 1], o, h)
    ELSE reconnect_secure(r, o, h)

\* client.rs 233-236
reconnect_feat(r, o, h) ==
    IF feat_wanted(r)
    THEN LET r1 == [r EXCEPT !.log = Append(@, Cmd("FEAT", << >>, h, o.fail # "feat")),
                             !.feat_issued = @ + 1]
         IN  IF o.fail = "feat" THEN Step(r1, Err(o.err, 0))
             ELSE reconnect_secure([r1 EXCEPT !.features = FtpClientFeatures_from(o.feat),
                                              !.has_feat = TRUE,
                                              !.feat_ok = @ + 1], o, h)
    ELSE reconnect_secure(r, o, h)

\* drop_connection left out
keep_connection(r) == r

\* client.rs 229: the existing connection is dropped
drop_connection(r) == [r EXCEPT !.ftp = None]

\* client.rs 227-263; the trace entry "reconnect" tells whether the handle is gone
reconnect(r, o) ==
    LET r0 == [drop_connection(r) EXCEPT
                   !.log = Append(@, Cmd("reconnect", << >>, 0,
                                         ~ is_some(drop_connection(r).ftp))),
                   !.dir = ServerDefault]
        r1 == [r0 EXCEPT !.log = Append(@, Cmd("CONNECT", << >>, r0.sessions + 1,
                                               o.fail # "connect"))]
    IN  IF o.fail = "connect" THEN Step(r1, Err(o.err, 0))
        ELSE reconnect_feat([r1 EXCEPT !.sessions = @ + 1], o, r1.sessions + 1)

----------------------------------------------------------------------------
(* The listing-format adapter, src/mlst.rs 341-415, over suppaftp's list::File *)

days_in_year(year) == IF is_leap_year(year) THEN 366 ELSE 365

RECURSIVE civil_year(_, _)
\* The year holding the day `days` days after 1 January of `year`, and the day of it
civil_year(year, days) ==
    IF days < 0 THEN civil_year(year - 1, days + days_in_year(year - 1))
    ELSE IF days >= days_in_year(year) THEN civil_year(year + 1, days - days_in_year(year))
    ELSE << year, days >>

RECURSIVE civil_month(_, _, _)
civil_month(year, month, days) ==
    IF days >= days_in_month(year, month)
    THEN civil_month(year, month + 1, days - days_in_month(year, month))
    ELSE << month, days + 1 >>

\* The calendar date and time of day `secs` seconds after 1970-01-01 00:00:00
civil_from_secs(secs) ==
    LET yd == civil_year(1970, secs \div 86400)
        md == civil_month(yd[1], 1, yd[2])
        sod == secs % 86400
    IN  [ year |-> yd[1], month |-> md[1], day |-> md[2], hour |-> sod \div 3600,
          minute |-> (sod % 3600) \div 60, second |-> sod % 60, ms |-> 0 ]

\* The offsets of local time from UTC, in seconds, that the process may run under
UtcOffsets == { 0 - 3600, 7200 }

\* The offset the controller's process runs under
LocalOffset == CHOOSE off \in UtcOffsets : off < 0

\* A SystemTime: the whole seconds since the epoch, and the milliseconds past them
SystemTime(secs, ms) == [ secs |-> secs, ms |-> ms ]

\* mlst.rs 341-344: a SystemTime as local wall-clock time, under the offset local
\* time has at that instant
systemtime_to_naivedatetime(t, utc_offset) ==
    [civil_from_secs(t.secs + utc_offset) EXCEPT !.ms = t.ms]

\* The leap years up to and including a year
leap_years_to(year) == year \div 4 - year \div 100 + year \div 400

\* The days from 1 January 1970 to 1 January of a year
days_before_year(year) ==
    365 * (year - 1970) + leap_years_to(year - 1) - leap_years_to(1969)

RECURSIVE days_before_month(_, _)
days_before_month(year, month) ==
    IF month = 1 THEN 0
    ELSE days_before_month(year, month - 1) + days_in_month(year, month - 1)

\* The seconds from 1970-01-01 00:00:00 to a calendar date and time of day
secs_from_civil(dt) ==
    (days_before_year(dt.year) + days_before_month(dt.year, dt.month) + dt.day - 1) * 86400
    + dt.hour * 3600 + dt.minute * 60 + dt.second

CivilTime(year, month, day, hour, minute, second, ms) ==
    [ year |-> year, month |-> month, day |-> day, hour |-> hour, minute |-> minute,
      second |-> second, ms |-> ms ]

\* A time zone: the offset of local time from UTC is dst from the instant dst_begin
\* to the instant dst_end (seconds since the epoch, UTC), and std at any other time
TimeZone(std, dst, dst_begin, dst_end) ==
    [ std |-> std, dst |-> dst, dst_begin |-> dst_begin, dst_end |-> dst_end ]

\* A zone with no daylight saving time
tz_fixed == TimeZone(0 - 3600, 0 - 3600, 0, 0)

\* A zone of central Europe: clocks go from 02:00 to 03:00 on 26 March 2023 and
\* from 03:00 back to 02:00 on 29 October 2023
tz_dst ==
    TimeZone(3600, 7200, secs_from_civil(CivilTime(2023, 3, 26, 1, 0, 0, 0)),
             secs_from_civil(CivilTime(2023, 10, 29, 1, 0, 0, 0)))

\* The time zones the process may run under
TimeZones == { tz_fixed, tz_dst }

\* The offset of local time from UTC at an instant
offset_at(tz, secs) ==
    IF tz.dst_begin <= secs /\ secs < tz.dst_end THEN tz.dst ELSE tz.std

\* chrono's Local.from_local_datetime: the instants (seconds) whose local wall-clock
\* time is the given one: none in a gap of the zone, two in an overlap, else one
from_local_datetime(local_secs, tz) ==
    { u \in { local_secs - tz.std, local_secs - tz.dst } : u + offset_at(tz, u) = local_secs }

TimePanic == [ tag |-> "Panic", t |-> SystemTime(0, 0) ]

TimeOk(t) == [ tag |-> "Ok", t |-> t ]

\* LocalResult::unwrap returns the single instant, and panics on none and on two
local_result_unwrap(instants, ms) ==
    IF Cardinality(instants) = 1 THEN TimeOk(SystemTime(set_min(instants), ms))
    ELSE TimePanic

\* mlst.rs 346-348: Local.from_local_datetime(&t).unwrap().into()
naivedatetime_to_systemtime(t, tz) ==
    local_result_unwrap(from_local_datetime(secs_from_civil(t), tz), t.ms)

\* list::File, as File::from_raw builds it: pex is the (owner, group, others) triple
File(name, is_directory, size, modified, uid, gid, pex) ==
    [ name |-> name, is_directory |-> is_directory, size |-> size, modified |-> modified,
      uid |-> uid, gid |-> gid, pex |-> pex ]

\* list::File::can_read, can_write, can_execute for who in Owner (1), Group (2), Others (3)
can_read(file, who) == (file.pex[who] \div 4) % 2 = 1

can_write(file, who) == (file.pex[who] \div 2) % 2 = 1

can_execute(file, who) == file.pex[who] % 2 = 1

bit(b) == IF b THEN 1 ELSE 0

\* mlst.rs 363-367: mode_bits!(file, who); the bits are disjoint, so | is +
mode_bits_who(file, who) ==
    bit(can_read(file, who)) * 4 + bit(can_write(file, who)) * 2 + bit(can_execute(file, who))

\* mode_bits with the owner's bits at the high end and the others' at the low end
mode_bits_owner_high(file) ==
    mode_bits_who(file, 1) * 64 + mode_bits_who(file, 2) * 8 + mode_bits_who(file, 3)

\* mlst.rs 368-372: mode_bits!(file)
mode_bits(file) ==
    mode_bits_who(file, 3) * 64 + mode_bits_who(file, 2) * 8 + mode_bits_who(file, 1)

\* mlst.rs 378-386
list_item_type(file) ==
    IF file.is_directory
    THEN IF file.name = << "." >> THEN "CurrentDir"
         ELSE IF file.name = << ".", "." >> THEN "ParentDir"
         ELSE "Dir"
    ELSE "File"

\* mlst.rs 375-415
list_to_ftp(file, utc_offset) ==
    [ name |-> file.name,
      ty |-> list_item_type(file),
      size |-> Some(file.size),
      modified |-> Some(systemtime_to_naivedatetime(file.modified, utc_offset)),
      created |-> None, unique |-> None,
      perm |-> Some([PermDefault EXCEPT !.read = can_read(file, 1),
                                        !.write = can_write(file, 1),
                                        !.list = can_execute(file, 1)]),
      lang |-> None, media_type |-> None, charset |-> None,
      unix_owner |-> file.uid, unix_ownername |-> None,
      unix_group |-> file.gid, unix_groupname |-> None,
      unix_mode |-> Some(mode_bits(file)),
      others |-> None ]

FilePanic == [ tag |-> "Panic", file |-> File(<< >>, FALSE, 0, SystemTime(0, 0), None, None,
                                           << 0, 0, 0 >>) ]

FileOk(file) == [ tag |-> "Ok", file |-> file ]

\* Option::unwrap_or
unwrap_or(opt, default) == IF is_some(opt) THEN unwrap(opt) ELSE default

\* mlst.rs 354: file.perm.as_ref().map(MlstFilePermissions::as_pex).unwrap_or(0)
pex_of(perm) == IF is_some(perm) THEN as_pex(unwrap(perm)) ELSE 0

\* mlst.rs 356: File::from_raw on the converted fields, pex for owner, group and others
ftp_to_list_raw(file, modified) ==
    IF modified.tag = "Panic" THEN FilePanic
    ELSE FileOk(File(file.name, is_dir(file.ty), unwrap_or(file.size, 0), modified.t,
                     file.unix_owner, file.unix_group,
                     << pex_of(file.perm), pex_of(file.perm), pex_of(file.perm) >>))

\* mlst.rs 350-357; NaiveDateTime::from_timestamp(0, 0) is the default of modified,
\* and usize is taken as wide as u64
ftp_to_list(file, tz) ==
    ftp_to_list_raw(file,
        naivedatetime_to_systemtime(
            unwrap_or(file.modified, CivilTime(1970, 1, 1, 0, 0, 0, 0)), tz))

----------------------------------------------------------------------------
(* The responses of the listing commands *)

fact(name, value) == name \o << EQUAL >> \o value \o << SEMICOLON >>

\* A response line: its text and, for a LIST line, what suppaftp's
\* list::File::from_str makes of it (None: a parse error)
Line(text, unix) == [ text |-> text, unix |-> unix ]

d_month13 == << "2", "0", "2", "3", "1", "3", "0", "1", "0", "0", "0", "0", "0", "0" >>

l_file == Line(fact(s_type, s_file) \o fact(s_size, << "1", "2" >>) \o << " ", "a" >>, None)
l_dir == Line(fact(s_type, s_dir) \o << " ", "d" >>, None)
l_cdir == Line(fact(s_type, s_cdir) \o << " ", "." >>, None)
l_cdir2 == Line(fact(s_type, s_cdir) \o fact(s_unique, << "u" >>) \o << " ", "." >>, None)
l_pdir == Line(fact(s_type, s_pdir) \o << " ", ".", "." >>, None)
l_syntax == Line(fact(s_type, s_file) \o << "a" >>, None)
l_badsize == Line(fact(s_type, s_file) \o fact(s_size, << "x" >>) \o << " ", "a" >>, None)
l_baddate == Line(fact(s_modify, << "2", "0", "2", "3" >>) \o << " ", "a" >>, None)
l_month13 == Line(fact(s_type, s_file) \o fact(s_modify, d_month13) \o << " ", "a" >>, None)

\* The lines of an MLSD response
MlsdLines == { l_file, l_dir, l_cdir, l_cdir2, l_pdir, l_syntax, l_badsize, l_baddate,
               l_month13 }

u_file == Line(<< "1" >>, Some(File(<< "a" >>, FALSE, 12, SystemTime(86400, 0), Some(1), Some(2), << 6, 4, 0 >>)))
u_dir == Line(<< "2" >>, Some(File(<< "d" >>, TRUE, 0, SystemTime(0, 0), None, None, << 7, 5, 5 >>)))
u_dot == Line(<< "3" >>, Some(File(<< "." >>, TRUE, 0, SystemTime(0, 0), None, None, << 7, 5, 5 >>)))
u_dot2 == Line(<< "4" >>, Some(File(<< "." >>, TRUE, 1, SystemTime(0, 0), None, None, << 7, 0, 0 >>)))
u_dotdot == Line(<< "5" >>, Some(File(<< ".", "." >>, TRUE, 0, SystemTime(0, 0), None, None, << 7, 5, 5 >>)))
u_bad == Line(<< "6" >>, None)

\* The lines of a LIST response
ListLines == { u_file, u_dir, u_dot, u_dot2, u_dotdot, u_bad }

\* The sequences over S of at most n elements
SeqsUpTo(S, n) == UNION { [ 1..k -> S ] : k \in 0..n }

\* What the collaborator answers to a command: Ok with the response lines, or an error
ReplyOk(lines) == [ tag |-> "Ok", err |-> NoErr, lines |-> lines ]

ReplyErr(e) == [ tag |-> "Err", err |-> e, lines |-> << >> ]

ErrReplies == { ReplyErr(e) : e \in CollabErrors }

UnitReplies == { ReplyOk(<< >>) } \cup ErrReplies

\* The MLSD and LIST responses a session answers with
MlsdResponses ==
    { << >>, << l_file >>, << l_cdir, l_file, l_dir >>, << l_syntax, l_file >>,
      << l_file, l_badsize >>, << l_cdir, l_baddate, l_syntax >>, << l_month13 >>,
      << l_file, l_month13, l_syntax >> }

ListResponses ==
    { << >>, << u_dot, u_dotdot, u_file >>, << u_bad >>, << u_file, u_bad, u_dir >> }

MlsdReplies == { ReplyOk(ls) : ls \in MlsdResponses } \cup ErrReplies

ListReplies == { ReplyOk(ls) : ls \in ListResponses } \cup ErrReplies

\* The replies to a command
Replies(cmd) ==
    IF cmd = "MLSD" THEN MlsdReplies ELSE IF cmd = "LIST" THEN ListReplies ELSE UnitReplies

----------------------------------------------------------------------------
(* list_fn!, src/client.rs 187-208 *)

\* list_route without the match on the type
list_route_all(list, item) == [list EXCEPT !.items = Append(@, item)]

\* client.rs 194-204: the entry goes to its slot or to the items
list_route(list, item) ==
    IF item.ty = "CurrentDir" THEN [list EXCEPT !.current = Some(item)]
    ELSE IF item.ty = "ParentDir" THEN [list EXCEPT !.parent = Some(item)]
    ELSE [list EXCEPT !.items = Append(@, item)]

\* The closures without their map_err
map_err_keep(p) == p

\* client.rs 274, 286: map_err(|_| FtpError::BadResponse), whatever the error was
map_err_bad_response(p) == IF p.tag = "Err" THEN ParseErr("BadResponse") ELSE p

\* client.rs 274: the closure of list_mlsd
map_mlsd(line) == map_err_bad_response(parse_mlst_line(line.text))

\* client.rs 286: the closure of list_list
map_list(line, utc_offset) ==
    IF is_some(line.unix) THEN ParseOk(list_to_ftp(unwrap(line.unix), utc_offset))
    ELSE ParseErr("BadResponse")

\* The closure of the strategy
map_line(mode, line, utc_offset) ==
    IF mode = "Mlsd" THEN map_mlsd(line) ELSE map_list(line, utc_offset)

\* client.rs 193: `ritem?` leaves the fold with the entry's error
fold_stops(ritem) == ritem.tag = "Err"

RECURSIVE try_fold(_, _, _, _, _)

\* client.rs 192-205: the closure of try_fold on the i-th entry
try_fold_step(mode, lines, utc_offset, i, list, ritem) ==
    IF ritem.tag = "Panic" THEN Panic(i)
    ELSE IF fold_stops(ritem) THEN Err(FtpError(ritem.err), i)
    ELSE try_fold(mode, lines, utc_offset, i + 1, list_route(list, ritem.item))

\* client.rs 190-206: the lazy map and the try_fold, at line i
try_fold(mode, lines, utc_offset, i, list) ==
    IF i > Len(lines) THEN Ok(list, i - 1)
    ELSE try_fold_step(mode, lines, utc_offset, i, list, map_line(mode, lines[i], utc_offset))

list_fold(mode, lines, utc_offset) == try_fold(mode, lines, utc_offset, 1, FtpListDefault)

----------------------------------------------------------------------------
(* ftp!, src/client.rs 162-185, and the operations *)

\* What a call leaves behind when it returns (or panics)
Return(r, result, lines) ==
    /\ ftp' = r.ftp
    /\ has_feat' = r.has_feat
    /\ features' = r.features
    /\ sessions' = r.sessions
    /\ feat_issued' = r.feat_issued
    /\ feat_ok' = r.feat_ok
    /\ log' = r.log
    /\ attempts' = r.attempts
    /\ transitions' = r.transitions
    /\ session_dir' = r.dir
    /\ navigated' = r.navigated
    /\ ret' = result
    /\ lines_seen' = lines
    /\ pc' = IF result.tag = "Panic" THEN "panic" ELSE "idle"

\* What the trace keeps of a reply or of a transition's result
Outcome(a) == [ tag |-> a.tag, err |-> a.err ]

\* Where a command takes the session when it succeeds: CWD to its argument, CDUP up
target(cmd, arg) == IF cmd = "CDUP" THEN p_up ELSE arg

\* The session after a command: a successful CWD or CDUP changes its directory
navigate(r, cmd, arg, a) ==
    IF a.tag = "Ok" /\ cmd \in { "CWD", "CDUP" }
    THEN [r EXCEPT !.dir = WorkDir(@.base, Some(target(cmd, arg))),
                   !.navigated = Some(target(cmd, arg))]
    ELSE r

\* client.rs 174, 179: the command goes out on the handle in use, and is answered
issue(r, cmd, arg, a) ==
    [navigate(r, cmd, arg, a) EXCEPT
         !.log = Append(@, Cmd(cmd, arg, unwrap(r.ftp), a.tag = "Ok")),
         !.attempts = Append(@, Outcome(a))]

\* client.rs 170, 178: self.reconnect(), as the macro runs it
transition(c) == Step([c.r EXCEPT !.transitions = Append(@, Outcome(c.result))], c.result)

\* should_retry without the already_reconnected flag
should_retry_always(e, already_reconnected) == is_recoverable(e)

\* should_retry without the question whether the error is recoverable
should_retry_any(e, already_reconnected) == ~ already_reconnected

\* client.rs 177
should_retry(e, already_reconnected) == is_recoverable(e) /\ ~ already_reconnected

\* FtpResult<()> of a command's reply
unit_result(r, a) ==
    Return(r, IF a.tag = "Ok" THEN Ok(FtpListDefault, 0) ELSE Err(a.err, 0), << >>)

\* client.rs 189-206: `?` on the macro's value, then the fold
list_result(mode, r, a) ==
    IF a.tag = "Err" THEN Return(r, Err(a.err, 0), << >>)
    ELSE Return(r, list_fold(mode, a.lines, LocalOffset), a.lines)

\* What the caller of ftp! does with its value: cdup and chdir return it, list_mlsd
\* and list_list go on with list_fn!
deliver(cmd, r, a) ==
    IF cmd = "MLSD" THEN list_result("Mlsd", r, a)
    ELSE IF cmd = "LIST" THEN list_result("List", r, a)
    ELSE unit_result(r, a)

\* client.rs 178: `?` on the reconnect leaves the function; otherwise the command is
\* issued on the new handle, answered by one of the replies
after_transition(c, cmd, arg, replies) ==
    IF c.result.tag = "Err" THEN deliver(cmd, c.r, ReplyErr(c.result.err))
    ELSE \E a2 \in replies : deliver(cmd, issue(c.r, cmd, arg, a2), a2)

\* ftp_retry without the assignment to result: the first error stays
ftp_retry_keeps_first(r, cmd, arg, e) ==
    \E o \in SettingsOutcomes :
        LET c == transition(reconnect(r, o))
        IN  IF c.result.tag = "Err" THEN deliver(cmd, c.r, ReplyErr(c.result.err))
            ELSE \E a2 \in Replies(cmd) :
                     deliver(cmd, issue(c.r, cmd, arg, a2), ReplyErr(e))

\* client.rs 178-179: the reconnect and the retry; e is the first attempt's error
ftp_retry(r, cmd, arg, e) ==
    \E o \in SettingsOutcomes :
        after_transition(transition(reconnect(r, o)), cmd, arg, Replies(cmd))

\* client.rs 174-183: the attempt on the handle in use
ftp_attempt(r, already_reconnected, cmd, arg) ==
    \E a1 \in Replies(cmd) :
        IF a1.tag = "Err" /\ should_retry(a1.err, already_reconnected)
        THEN ftp_retry(issue(r, cmd, arg, a1), cmd, arg, a1.err)
        ELSE deliver(cmd, issue(r, cmd, arg, a1), a1)

\* ftp_connect_first without already_reconnected = true
ftp_connect_first_retrying(c, cmd, arg) ==
    IF c.result.tag = "Err" THEN deliver(cmd, c.r, ReplyErr(c.result.err))
    ELSE ftp_attempt(c.r, FALSE, cmd, arg)

\* client.rs 166-172: with no handle, the connect transition comes first
ftp_connect_first(c, cmd, arg) ==
    IF c.result.tag = "Err" THEN deliver(cmd, c.r, ReplyErr(c.result.err))
    ELSE ftp_attempt(c.r, TRUE, cmd, arg)

\* client.rs 162-185
ftp_macro(cmd, arg) ==
    IF is_some(ftp) THEN ftp_attempt(RunState, FALSE, cmd, arg)
    ELSE \E o \in SettingsOutcomes :
             ftp_connect_first(transition(reconnect(RunState, o)), cmd, arg)

\* What get_list_mode returns and leaves in the two cache fields
ListMode(mode, slm, elm) ==
    [ mode |-> mode, settings_list_mode |-> slm, effective_list_mode |-> elm ]

\* client.rs 299-307: the match on settings_list_mode
list_mode_of(slm, elm) ==
    IF is_some(slm) THEN ListMode(unwrap(slm), slm, slm) ELSE ListMode("List", slm, elm)

\* client.rs 289-308; answer is what settings.list_mode() returns if asked
get_list_mode(answer) ==
    IF is_some(effective_list_mode)
    THEN ListMode(unwrap(effective_list_mode), settings_list_mode, effective_list_mode)
    ELSE list_mode_of(IF ~ is_some(settings_list_mode) THEN answer ELSE settings_list_mode,
                      effective_list_mode)

\* A caller starts a call: the trace of the previous call is cleared
invoke(op, arg) ==
    /\ pc' = op
    /\ call_op' = op
    /\ call_arg' = arg
    /\ ftp_at_call' = ftp
    /\ log' = << >>
    /\ attempts' = << >>
    /\ transitions' = << >>
    /\ ret' = NoReturn
    /\ lines_seen' = << >>
    /\ UNCHANGED << settings, settings_list_mode, effective_list_mode, ftp, has_feat,
                    features, current_path, sessions, feat_issued, feat_ok,
                    first_list_mode, last_list_mode, session_dir, navigated, fn_arg,
                    fn_ret >>

\* The caller may start a call while the collaborator has sessions left to open
can_call == pc = "idle" /\ sessions < MaxSessions

call_cdup ==
    /\ can_call
    /\ invoke("cdup", << >>)

call_chdir ==
    /\ can_call
    /\ \E path \in Paths : invoke("chdir", path)

call_list ==
    /\ can_call
    /\ invoke("list", << >>)

\* client.rs 265-267
cdup ==
    /\ pc = "cdup"
    /\ ftp_macro("CDUP", << >>)
    /\ UNCHANGED << settings, settings_list_mode, effective_list_mode, current_path,
                    call_op, call_arg, ftp_at_call, first_list_mode, last_list_mode,
                    fn_arg, fn_ret >>

\* client.rs 269-271
chdir ==
    /\ pc = "chdir"
    /\ ftp_macro("CWD", call_arg)
    /\ UNCHANGED << settings, settings_list_mode, effective_list_mode, current_path,
                    call_op, call_arg, ftp_at_call, first_list_mode, last_list_mode,
                    fn_arg, fn_ret >>

\* client.rs 273-275
list_mlsd == ftp_macro("MLSD", << >>)

\* client.rs 285-287
list_list == ftp_macro("LIST", << >>)

\* client.rs 277-283: unimplemented!()
list_unimplemented == Return(RunState, Panic(0), << >>)

\* client.rs 311-316: the match on the strategy
list_dispatch(g) ==
    /\ settings_list_mode' = g.settings_list_mode
    /\ effective_list_mode' = g.effective_list_mode
    /\ first_list_mode' = IF is_some(first_list_mode) THEN first_list_mode ELSE Some(g.mode)
    /\ last_list_mode' = Some(g.mode)
    /\ IF g.mode = "List" THEN list_list
       ELSE IF g.mode = "Mlsd" THEN list_mlsd
       ELSE list_unimplemented

\* client.rs 310-317
list ==
    /\ pc = "list"
    /\ \E answer \in ListModeAnswers : list_dispatch(get_list_mode(answer))
    /\ UNCHANGED << settings, current_path, call_op, call_arg, ftp_at_call, fn_arg, fn_ret >>

\* client.rs 212-225: FtpClient::new, around a settings object, and no call made yet
InitClient(config) ==
    /\ settings = config
    /\ settings_list_mode = None
    /\ effective_list_mode = None
    /\ ftp = None
    /\ has_feat = FALSE
    /\ features = FeaturesDefault
    /\ current_path = None
    /\ call_op = ""
    /\ call_arg = << >>
    /\ ret = NoReturn
    /\ log = << >>
    /\ attempts = << >>
    /\ transitions = << >>
    /\ lines_seen = << >>
    /\ ftp_at_call = None
    /\ sessions = 0
    /\ feat_issued = 0
    /\ feat_ok = 0
    /\ first_list_mode = None
    /\ last_list_mode = None
    /\ session_dir = ServerDefault
    /\ navigated = None

Init ==
    /\ \E config \in SettingsSet : InitClient(config)
    /\ pc = "idle"
    /\ fn_arg = << >>
    /\ fn_ret = NoCall

Next ==
    \/ call_cdup
    \/ call_chdir
    \/ call_list
    \/ cdup
    \/ chdir
    \/ list

Spec == Init /\ [][Next]_vars

----------------------------------------------------------------------------
(* The pure functions, each run once on an input of a bounded set *)

MaxFacts == 2

\* A controller that plays no part in a pure function's run
NoSettings == [ use_feat |-> FALSE, use_secure |-> FALSE, remote_dir |-> None ]

RECURSIVE concat(_)
\* The strings of a sequence, joined
concat(ss) == IF ss = << >> THEN << >> ELSE Head(ss) \o concat(Tail(ss))

DateYears == { << "2", "0", "2", "3" >>, << "2", "0", "2", "4" >> }

DateMonths == { << "0", "0" >>, << "0", "2" >>, << "1", "2" >>, << "1", "3" >> }

DateDays == { << "0", "1" >>, << "2", "9" >>, << "3", "1" >>, << "3", "2" >> }

DateHours == { << "0", "0" >>, << "2", "3" >>, << "2", "4" >> }

DateMinutes == { << "5", "9" >>, << "6", "0" >> }

DateSeconds == { << "0", "0" >>, << "6", "0" >> }

DateFractions ==
    { << >>, << ".", "9", "9", "9" >>, << ",", "0", "0", "0" >>, << ".", "0", "0" >>,
      << ".", "0", "x", "0" >> }

d_valid14 == << "2", "0", "2", "3", "0", "1", "0", "2", "0", "3", "0", "4", "0", "5" >>

d_valid18 == d_valid14 \o << ".", "6", "7", "8" >>

d_hour24 == << "2", "0", "2", "3", "0", "1", "0", "1", "2", "4", "0", "0", "0", "0" >>

\* Strings that are no dates at all: empty, short, signed, with a letter, and one of
\* 14 bytes but 13 characters
DateOddities ==
    { << >>, << "2", "0", "2", "3" >>,
      << "+" >> \o SubSeq(d_valid14, 1, 13),
      SubSeq(d_valid14, 1, 13) \o << "x" >>,
      SubSeq(d_valid14, 1, 12) \o << NonAscii >>,
      d_valid14 \o << "0" >> }

\* The inputs of parse_mlst_date
DateInputs ==
    { y \o m \o d \o h \o mi \o sec \o fr :
          y \in DateYears, m \in DateMonths, d \in DateDays, h \in DateHours,
          mi \in DateMinutes, sec \in DateSeconds, fr \in DateFractions }
    \cup DateOddities

\* The facts of the lines given to parse_mlst_line
LineFacts ==
    { fact(s_type, s_file), fact(<< "T", "y", "p", "e" >>, << "D", "I", "R" >>),
      fact(s_type, << "x" >>), fact(s_size, << "1", "2" >>), fact(s_size, << "x" >>),
      fact(s_modify, d_valid14), fact(s_modify, d_month13), fact(s_modify, << "2", "0" >>),
      fact(s_create, d_valid18), fact(s_create, d_hour24),
      fact(s_perm, << "r", "w", "l" >>), fact(s_perm, << "z" >>),
      fact(s_unix_mode, << "7", "5", "5" >>), fact(s_unix_mode, << "8" >>),
      fact(<< "x" >>, << "y" >>), fact(<< >>, << "v" >>), s_type,
      << "a", "=", "b", "=", "c", ";" >> }

\* What follows the facts
LineTails == { << " ", "a" >>, << >>, << " " >>, << " ", "a", " ", "b" >>, << "a" >> }

\* The inputs of parse_mlst_line
LineInputs == { concat(fs) \o t : fs \in SeqsUpTo(LineFacts, MaxFacts), t \in LineTails }

\* The inputs of list_fn!: a strategy, and the lines its command returned
FoldInputs ==
    { [ mode |-> "Mlsd", lines |-> ls ] : ls \in SeqsUpTo(MlsdLines, MaxLines) }
    \cup { [ mode |-> "List", lines |-> ls ] : ls \in SeqsUpTo(ListLines, MaxLines) }

\* Where a pure function's run ends
fn_end(result) == IF result.tag = "Panic" THEN "panic" ELSE "done"

InitFn(fn, inputs) ==
    /\ InitClient(NoSettings)
    /\ pc = fn
    /\ fn_arg \in inputs
    /\ fn_ret = NoCall

\* mlst.rs 127-173
call_parse_mlst_date ==
    /\ pc = "parse_mlst_date"
    /\ fn_ret' = parse_mlst_date(fn_arg)
    /\ pc' = fn_end(fn_ret')
    /\ UNCHANGED << client_vars, fn_arg >>

InitDate == InitFn("parse_mlst_date", DateInputs)

NextDate == call_parse_mlst_date

SpecDate == InitDate /\ [][NextDate]_vars

\* mlst.rs 189-339
call_parse_mlst_line ==
    /\ pc = "parse_mlst_line"
    /\ fn_ret' = parse_mlst_line(fn_arg)
    /\ pc' = fn_end(fn_ret')
    /\ UNCHANGED << client_vars, fn_arg >>

InitLine == InitFn("parse_mlst_line", LineInputs)

NextLine == call_parse_mlst_line

SpecLine == InitLine /\ [][NextLine]_vars

\* client.rs 189-206: the map and the fold of list_fn!, on the lines of a response
call_list_fn ==
    /\ pc = "list_fn"
    /\ fn_ret' = list_fold(fn_arg.mode, fn_arg.lines, LocalOffset)
    /\ pc' = fn_end(fn_ret')
    /\ UNCHANGED << client_vars, fn_arg >>

InitList == InitFn("list_fn", FoldInputs)

NextList == call_list_fn

SpecList == InitList /\ [][NextList]_vars

MaxPermLen == 3

\* The characters of the permission strings: the ten letters, some in upper case,
\* and characters that are no permission
PermChars ==
    { "a", "c", "d", "e", "f", "l", "m", "p", "r", "w", "A", "R", "W", "x", "-", NonAscii }

\* The inputs of the permission decoder
PermInputs == SeqsUpTo(PermChars, MaxPermLen)

\* Result<MlstFilePermissions, list::ParseError>
PermResult(p) ==
    IF is_some(p) THEN [ tag |-> "Ok", err |-> "", perm |-> unwrap(p) ]
    ELSE [ tag |-> "Err", err |-> "SyntaxError", perm |-> PermDefault ]

\* mlst.rs 25-71
call_perm_try_from ==
    /\ pc = "perm_try_from"
    /\ fn_ret' = PermResult(MlstFilePermissions_try_from(fn_arg))
    /\ pc' = fn_end(fn_ret')
    /\ UNCHANGED << client_vars, fn_arg >>

InitPerm == InitFn("perm_try_from", PermInputs)

NextPerm == call_perm_try_from

SpecPerm == InitPerm /\ [][NextPerm]_vars

MaxFeatLines == 2

\* Lines of a FEAT response: keywords alone, with arguments, in the wrong case,
\* padded, followed by a tab, blank, and unknown
FeatLines ==
    { w_CLNT, << " " >> \o w_PASV \o << " " >>, w_UTF8 \o << " ", "x" >>, w_MDTM, w_SIZE,
      w_TVFS, w_REST \o << " " >> \o w_STREAM, w_REST \o << " ", "s", "t", "r", "e", "a", "m" >>,
      w_REST, w_REST \o << " " >> \o w_STREAM \o << "S" >>,
      w_AUTH \o << " " >> \o w_TLS, w_AUTH \o << " ", " ", "t", "l", "s", " " >>,
      w_AUTH \o << " ", "S", "S", "L" >>,
      w_MLST \o << " " >> \o s_type \o << "*", ";" >> \o s_size \o << ";" >>,
      w_MLST, w_MLST \o << " ", "M", "o", "d", "i", "f", "y", " ", ";", "x", "*", ";", "a", "*", "b" >>,
      << "c", "l", "n", "t" >>, << "F", "O", "O", " ", "B", "A", "R" >>, << " ", "F", "O", "O" >>,
      << >>, << " ", " " >>, << "\t" >>, w_CLNT \o << "\t", "x" >> }

\* The inputs of the feature parse
FeatInputs == SeqsUpTo(FeatLines, MaxFeatLines)

\* client.rs 42-96
call_features_from ==
    /\ pc = "features_from"
    /\ fn_ret' = [ tag |-> "Ok", features |-> FtpClientFeatures_from(fn_arg) ]
    /\ pc' = fn_end(fn_ret')
    /\ UNCHANGED << client_vars, fn_arg >>

InitFeat == InitFn("features_from", FeatInputs)

NextFeat == call_features_from

SpecFeat == InitFeat /\ [][NextFeat]_vars

\* A fact as the server writes it: name=value;
Pair(name, value) == [ name |-> name, value |-> value ]

\* Facts whose values all decode, one or more of each kind, names in either case
EntryFacts ==
    { Pair(s_type, s_file), Pair(<< "T", "y", "p", "e" >>, << "D", "I", "R" >>),
      Pair(s_type, s_cdir), Pair(s_type, s_pdir),
      Pair(s_size, << "1", "2" >>), Pair(<< "M", "O", "D", "I", "F", "Y" >>, d_valid14),
      Pair(s_create, d_valid18), Pair(s_unique, << "u" >>),
      Pair(s_perm, << "R", "w", "l" >>), Pair(s_lang, << "e", "n" >>),
      Pair(s_media_type, << "t" >>), Pair(s_charset, << "c" >>),
      Pair(s_unix_owner, << "1" >>), Pair(s_unix_ownername, << "o" >>),
      Pair(s_unix_group, << "2" >>), Pair(s_unix_groupname, << "g" >>),
      Pair(s_unix_mode, << "7", "5", "5" >>),
      Pair(<< "x" >>, << "y" >>), Pair(<< "X" >>, << "z" >>) }

\* What follows the facts: the separating space (or none) and the file name
EntryTails ==
    { [ sep |-> << " " >>, name |-> << "a" >> ],
      [ sep |-> << " " >>, name |-> << "a", "=", "b", ";", " ", "c", " " >> ],
      [ sep |-> << " " >>, name |-> << " ", "." >> ],
      [ sep |-> << " " >>, name |-> << >> ],
      [ sep |-> << >>, name |-> << "a" >> ],
      [ sep |-> << >>, name |-> << >> ] }

\* The inputs of parse_mlst_line, kept in parts
EntryInputs == [ facts : SeqsUpTo(EntryFacts, MaxFacts), tail : EntryTails ]

\* The text of the facts of a line
entry_facts_text(facts) ==
    concat([ i \in 1..Len(facts) |-> fact(facts[i].name, facts[i].value) ])

\* The line of an input
entry_text(e) == entry_facts_text(e.facts) \o e.tail.sep \o e.tail.name

\* mlst.rs 189-339, on a line made of its parts
call_parse_mlst_entry ==
    /\ pc = "parse_mlst_entry"
    /\ fn_ret' = parse_mlst_line(entry_text(fn_arg))
    /\ pc' = fn_end(fn_ret')
    /\ UNCHANGED << client_vars, fn_arg >>

InitEntry == InitFn("parse_mlst_entry", EntryInputs)

NextEntry == call_parse_mlst_entry

SpecEntry == InitEntry /\ [][NextEntry]_vars

----------------------------------------------------------------------------
(* parse_mlst_line on lines with facts of other names *)

MaxOtherFacts == 3

\* A type fact, a size fact, and facts of other names: the same name in either case
\* and with several values, one of them empty
OtherFacts ==
    { Pair(s_type, s_file), Pair(s_size, << "1", "2" >>),
      Pair(<< "x" >>, << "y" >>), Pair(<< "X" >>, << "Z" >>), Pair(<< "x" >>, << >>),
      Pair(<< "Y", "z" >>, << "y" >>) }

\* The inputs of parse_mlst_line: the facts, a space and a file name
OtherInputs ==
    [ facts : SeqsUpTo(OtherFacts, MaxOtherFacts), tail : { [ sep |-> << SPACE >>, name |-> << "a" >> ] } ]

InitOther == InitFn("parse_mlst_entry", OtherInputs)

NextOther == call_parse_mlst_entry

SpecOther == InitOther /\ [][NextOther]_vars

----------------------------------------------------------------------------
(* ftp_to_list and list_to_ftp, one after the other *)

\* The names, sizes, times and permission sets of the entries converted
RoundNames == { << "a" >>, << "." >> }

RoundSizes == { None, Some(0), Some(12), Some(2147483647) }

RoundTimes ==
    { None,
      Some(CivilTime(1970, 1, 1, 0, 0, 0, 0)),
      Some(CivilTime(2023, 1, 15, 10, 20, 30, 500)),
      Some(CivilTime(2023, 7, 1, 12, 0, 0, 0)),
      Some(CivilTime(2023, 3, 26, 2, 30, 0, 0)),
      Some(CivilTime(2023, 10, 29, 2, 30, 0, 0)),
      Some(CivilTime(2024, 2, 29, 23, 59, 59, 999)) }

RoundPerms ==
    { None,
      Some(PermDefault),
      Some([PermDefault EXCEPT !.read = TRUE]),
      Some([PermDefault EXCEPT !.read = TRUE, !.write = TRUE, !.append = TRUE]),
      Some([PermDefault EXCEPT !.read = TRUE, !.write = TRUE, !.list = TRUE]),
      Some([PermDefault EXCEPT !.list = TRUE, !.enter = TRUE]),
      Some([PermDefault EXCEPT !.write = TRUE, !.list = TRUE, !.delete = TRUE]) }

\* The entries converted, and the time zone of the process
RoundInputs ==
    { [ item |-> FtpItem(name, ty, [NoFacts EXCEPT !.size = size, !.modified = modified,
                                                   !.perm = perm]),
        tz |-> tz ] :
      name \in RoundNames, ty \in { "File", "Dir", "CurrentDir", "ParentDir" },
      size \in RoundSizes, modified \in RoundTimes, perm \in RoundPerms,
      tz \in TimeZones }

\* list_to_ftp on the file ftp_to_list made, under the offset of the zone at its time
round_trip_back(r, tz) ==
    IF r.tag = "Panic" THEN [ tag |-> "Panic", file |-> r.file, item |-> NoItem ]
    ELSE [ tag |-> "Ok", file |-> r.file,
           item |-> list_to_ftp(r.file, offset_at(tz, r.file.modified.secs)) ]

\* mlst.rs 350-357, then 375-415
call_round_trip ==
    /\ pc = "round_trip"
    /\ fn_ret' = round_trip_back(ftp_to_list(fn_arg.item, fn_arg.tz), fn_arg.tz)
    /\ pc' = fn_end(fn_ret')
    /\ UNCHANGED << client_vars, fn_arg >>

InitRound == InitFn("round_trip", RoundInputs)

NextRound == call_round_trip

SpecRound == InitRound /\ [][NextRound]_vars

----------------------------------------------------------------------------
(* list_to_ftp on the entries of a long listing *)

\* The read, write and execute bits of one class, as a number
PexBits == 0..7

\* The entries of a long listing: files and directories of every mode
ModeFiles ==
    { File(name, is_directory, size, SystemTime(0, 0), None, None, << owner, group, others >>) :
      name \in { << "a" >>, << "." >> }, is_directory \in BOOLEAN, size \in { 0, 12 },
      owner \in PexBits, group \in PexBits, others \in PexBits }

\* The inputs of list_to_ftp, and the offset of local time
ModeInputs == [ file : ModeFiles, utc_offset : UtcOffsets ]

\* mlst.rs 375-415
call_list_to_ftp ==
    /\ pc = "list_to_ftp"
    /\ fn_ret' = ParseOk(list_to_ftp(fn_arg.file, fn_arg.utc_offset))
    /\ pc' = fn_end(fn_ret')
    /\ UNCHANGED << client_vars, fn_arg >>

InitMode == InitFn("list_to_ftp", ModeInputs)

NextMode == call_list_to_ftp

SpecMode == InitMode /\ [][NextMode]_vars

----------------------------------------------------------------------------
(* parse_mlst_line on lines whose delimiters stand anywhere *)

MaxPieceLen == 5

\* The characters of the lines: a letter and the three delimiters
ScanChars == { "a", SPACE, EQUAL, SEMICOLON }

\* What precedes the characters: nothing, or a type fact
ScanPrefixes == { << >>, fact(s_type, s_file) }

\* The inputs of parse_mlst_line: whole facts, then characters in any order
ScanInputs == [ prefix : ScanPrefixes, piece : SeqsUpTo(ScanChars, MaxPieceLen) ]

\* mlst.rs 189-339, on a line of characters in any order
call_parse_mlst_scan ==
    /\ pc = "parse_mlst_scan"
    /\ fn_ret' = parse_mlst_line(fn_arg.prefix \o fn_arg.piece)
    /\ pc' = fn_end(fn_ret')
    /\ UNCHANGED << client_vars, fn_arg >>

InitScan == InitFn("parse_mlst_scan", ScanInputs)

NextScan == call_parse_mlst_scan

SpecScan == InitScan /\ [][NextScan]_vars

----------------------------------------------------------------------------
(* Properties of the controller's calls *)

\* A call has returned (or panicked), and no other has started since
returned == pc \in { "idle", "panic" } /\ ret.tag # "None"

\* The first attempt failed with a recoverable error, every transition of the call
\* succeeded, and the command was issued again and succeeded
retry_succeeded ==
    /\ returned
    /\ Len(attempts) >= 2
    /\ attempts[1].tag = "Err"
    /\ is_recoverable(attempts[1].err)
    /\ \A i \in 1..Len(transitions) : transitions[i].tag = "Ok"
    /\ attempts[Len(attempts)].tag = "Ok"

\* The strategy the last list() call used, as map_line reads it
list_mode_used == IF last_list_mode = Some("Mlsd") THEN "Mlsd" ELSE "List"

\* What the strategy's closure makes of the i-th line received
mapped(i) == map_line(list_mode_used, lines_seen[i], LocalOffset)

every_line_parses == \A i \in 1..Len(lines_seen) : mapped(i).tag = "Ok"

\* C1 (as amended): when the first attempt fails with a recoverable error, the
\* reconnect succeeds and the retried command succeeds, exactly one reconnect
\* transition ran and the command was issued exactly twice; cdup and chdir return
\* success, and list returns success exactly when every line of the retried
\* response parses.
C1_retry_success ==
    retry_succeeded =>
        /\ Len(transitions) = 1
        /\ Len(attempts) = 2
        /\ call_op \in { "cdup", "chdir" } => ret.tag = "Ok"
        /\ call_op = "list" => (ret.tag = "Ok" <=> every_line_parses)

C1_witness ==
    /\ retry_succeeded
    /\ call_op = "list"
    /\ ret.tag = "Ok"
    /\ lines_seen # << >>

\* C1 as stated: after a successful retry every operation, list included, returns success
C1_as_stated == retry_succeeded => ret.tag = "Ok" /\ Len(transitions) = 1

\* C2: a call issues its command at most twice and runs at most one connect or
\* reconnect transition; when the retried command fails, its error is what the call
\* returns.
C2_retry_bounded ==
    returned =>
        /\ Len(attempts) <= 2
        /\ Len(transitions) <= 1
        /\ (Len(attempts) = 2 /\ attempts[2].tag = "Err") => ret = Err(attempts[2].err, 0)

C2_witness ==
    /\ returned
    /\ Len(attempts) = 2
    /\ attempts[2].tag = "Err"
    /\ is_recoverable(attempts[2].err)
    /\ Len(transitions) = 1

\* C3 (as amended): FEAT is answered successfully at most once, is never issued again
\* once it has been, and is never issued when the configuration disables it.
C3_feat_once_answered ==
    [][ /\ has_feat => feat_issued' = feat_issued
        /\ feat_ok' <= 1
        /\ ~ settings.use_feat => feat_issued' = 0 ]_vars

C3_witness == has_feat /\ feat_issued = 1 /\ sessions > 1

\* C3 as stated: with FEAT enabled, FEAT is issued at most once in total
C3_as_stated == settings.use_feat => feat_issued <= 1

\* The last transition of the call failed
transition_failed ==
    /\ returned
    /\ transitions # << >>
    /\ transitions[Len(transitions)].tag = "Err"

\* C4: when a connect/reconnect transition fails, the call returns that failure, the
\* command is not issued after it (not at all from Disconnected, once before a
\* reconnect), and the controller holds no handle.
C4_failed_transition ==
    transition_failed =>
        /\ ret = Err(transitions[Len(transitions)].err, 0)
        /\ Len(attempts) = IF is_some(ftp_at_call) THEN 1 ELSE 0
        /\ ftp = None

C4_witness ==
    /\ transition_failed
    /\ is_some(ftp_at_call)
    /\ Len(attempts) = 1
    /\ ftp = None

\* What the parsing function itself makes of the i-th line received
parsed(i) ==
    IF list_mode_used = "Mlsd" THEN parse_mlst_line(lines_seen[i].text)
    ELSE IF is_some(lines_seen[i].unix) THEN ParseOk(NoItem)
    ELSE ParseErr("SyntaxError")

\* list() received lines, the i-th is the first that does not parse, and the
\* parsing function returned an error for it
parse_error_at(i) ==
    /\ returned
    /\ call_op = "list"
    /\ i \in 1..Len(lines_seen)
    /\ parsed(i).tag = "Err"
    /\ \A j \in 1..(i - 1) : parsed(j).tag = "Ok"

\* C5 (as amended): when a line fails to parse with a parse error, list() returns
\* FtpError::BadResponse whatever the parse error was, at that line, and nothing
\* follows the listing command on the wire: no reconnect, no second listing command.
C5_parse_error_is_bad_response ==
    \A i \in 1..Len(lines_seen) :
        parse_error_at(i) =>
            /\ ret = Err(BadResponse, i)
            /\ log[Len(log)].cmd \in { "MLSD", "LIST" }
            /\ attempts[Len(attempts)].tag = "Ok"

C5_witness ==
    /\ parse_error_at(2)
    /\ list_mode_used = "Mlsd"
    /\ parsed(2).err = "BadSize"
    /\ ret.err = BadResponse

\* C5 as stated: the parse error of the line is what list() returns
C5_as_stated ==
    \A i \in 1..Len(lines_seen) :
        parse_error_at(i) => ret.tag = "Err" /\ ret.err.kind = parsed(i).err

\* list() received the lines of a successful listing command
lines_received ==
    /\ returned
    /\ call_op = "list"
    /\ attempts # << >>
    /\ attempts[Len(attempts)].tag = "Ok"

\* C6: list() returns a listing only if every line parsed, and an error otherwise
C6_no_partial_success ==
    lines_received =>
        /\ ret.tag \in { "Ok", "Err" }
        /\ ret.tag = "Ok" <=> every_line_parses

\* C7: every list() call dispatches with the strategy of the first
C7_strategy_cached == is_some(first_list_mode) => last_list_mode = first_list_mode

----------------------------------------------------------------------------
(* Properties of the pure functions *)

\* The entries the strategy's closure makes of the lines folded
fold_entries ==
    [ i \in 1..Len(fn_arg.lines) |-> map_line(fn_arg.mode, fn_arg.lines[i], LocalOffset).item ]

not_marker(item) == item.ty \notin { "CurrentDir", "ParentDir" }

\* The last entry of a type, if any
last_of_type(entries, ty) ==
    IF \E i \in DOMAIN entries : entries[i].ty = ty
    THEN Some(entries[set_max({ i \in DOMAIN entries : entries[i].ty = ty })])
    ELSE None

\* C8: when every line parses, the items are the entries that are no markers, in
\* order and with duplicates; the current and parent slots hold the last marker of
\* their type, or nothing when there was none.
C8_listing_routing ==
    (pc = "done" /\ fn_ret.tag = "Ok") =>
        /\ fn_ret.list.items = SelectSeq(fold_entries, not_marker)
        /\ fn_ret.list.current = last_of_type(fold_entries, "CurrentDir")
        /\ fn_ret.list.parent = last_of_type(fold_entries, "ParentDir")
        /\ \A i \in 1..Len(fn_ret.list.items) : not_marker(fn_ret.list.items[i])

C8_witness ==
    /\ pc = "done"
    /\ fn_ret.tag = "Ok"
    /\ fn_arg.lines = << l_cdir2, l_file, l_cdir >>
    /\ fn_ret.list.current = Some(fold_entries[3])
    /\ fn_ret.list.current # Some(fold_entries[1])
    /\ Len(fn_ret.list.items) = 1

\* A pure function's run has ended
fn_ended == pc \in { "done", "panic" }

\* C9: parse_mlst_line returns an entry or one of the typed parse errors
C9_line_total ==
    fn_ended =>
        /\ fn_ret.tag \in { "Ok", "Err" }
        /\ fn_ret.tag = "Err" => fn_ret.err \in { "SyntaxError", "BadSize", "InvalidDate" }

\* A string of the two forms parse_mlst_date reads
date_well_formed(s) ==
    /\ Len(s) \in { 14, 18 }
    /\ \A i \in 1..Len(s) : IF i = 15 THEN s[i] = "." ELSE is_ascii_digit(s[i])

\* The fields as the substrings read them
date_fields(s) ==
    [ year |-> digits_value(SubSeq(s, 1, 4), 10), month |-> digits_value(SubSeq(s, 5, 6), 10),
      day |-> digits_value(SubSeq(s, 7, 8), 10), hour |-> digits_value(SubSeq(s, 9, 10), 10),
      minute |-> digits_value(SubSeq(s, 11, 12), 10),
      second |-> digits_value(SubSeq(s, 13, 14), 10),
      ms |-> IF Len(s) = 18 THEN digits_value(SubSeq(s, 16, 18), 10) ELSE 0 ]

\* A date of the calendar and a time of the clock
date_exists(dt) ==
    /\ dt.month \in 1..12
    /\ dt.day \in 1..days_in_month(dt.year, dt.month)
    /\ dt.hour < 24
    /\ dt.minute < 60
    /\ dt.second < 60

\* C10: parse_mlst_date returns the fields of a well-formed string that names an
\* existing date and time, and no value for any other string
C10_date_decoded ==
    fn_ended =>
        IF date_well_formed(fn_arg) /\ date_exists(date_fields(fn_arg))
        THEN fn_ret = DateSome(date_fields(fn_arg))
        ELSE fn_ret = DateNone

----------------------------------------------------------------------------
(* Properties of parse_mlst_line on lines of decodable facts *)

\* The facts of the line whose name is the given one, whatever the case
facts_named(name) ==
    { i \in 1..Len(fn_arg.facts) : to_ascii_lowercase(fn_arg.facts[i].name) = name }

\* C11: a line of valid facts with no type fact fails with SyntaxError; every entry
\* returned has a non-empty name and the type of a type fact of the line.
C11_type_required ==
    fn_ended =>
        /\ facts_named(s_type) = {} => fn_ret = ParseErr("SyntaxError")
        /\ fn_ret.tag = "Ok" =>
               /\ fn_ret.item.name # << >>
               /\ \E i \in facts_named(s_type) :
                      Some(fn_ret.item.ty) = FtpItemType_try_from(fn_arg.facts[i].value)

C11_witness ==
    /\ fn_ended
    /\ Len(fn_arg.facts) = 2
    /\ facts_named(s_type) = {}
    /\ fn_arg.tail.sep # << >>
    /\ fn_arg.tail.name # << >>
    /\ fn_ret = ParseErr("SyntaxError")

\* The value of the last fact of a name, if the line has one
last_value(name) ==
    IF facts_named(name) = {} THEN None
    ELSE Some(fn_arg.facts[set_max(facts_named(name))].value)

\* A decoder applied to the value of the last fact of a name
decoded(name, decode(_)) ==
    IF facts_named(name) = {} THEN None ELSE Some(decode(unwrap(last_value(name))))

\* The type a type value stands for
type_lookup(v) ==
    CASE to_ascii_lowercase(v) = << "f", "i", "l", "e" >> -> "File"
      [] to_ascii_lowercase(v) = << "d", "i", "r" >> -> "Dir"
      [] to_ascii_lowercase(v) = << "c", "d", "i", "r" >> -> "CurrentDir"
      [] to_ascii_lowercase(v) = << "p", "d", "i", "r" >> -> "ParentDir"

decimal(v) == digits_value(v, 10)

octal(v) == digits_value(v, 8)

verbatim(v) == v

\* The letters of a string, lower-cased
letters(v) == { char_to_ascii_lowercase(v[i]) : i \in 1..Len(v) }

\* The permission set whose booleans are those of the letters of the value
perm_of_letters(v) ==
    [ append |-> "a" \in letters(v), create |-> "c" \in letters(v),
      delete |-> "d" \in letters(v), enter |-> "e" \in letters(v),
      rename |-> "f" \in letters(v), list |-> "l" \in letters(v),
      mkdir |-> "m" \in letters(v), purge |-> "p" \in letters(v),
      read |-> "r" \in letters(v), write |-> "w" \in letters(v) ]

\* The names of the facts the parser knows
KnownFactNames ==
    { s_size, s_modify, s_create, s_type, s_unique, s_perm, s_lang, s_media_type,
      s_charset, s_unix_owner, s_unix_ownername, s_unix_group, s_unix_groupname,
      s_unix_mode }

\* The lower-cased names of the other facts of the line
other_names ==
    { to_ascii_lowercase(fn_arg.facts[i].name) : i \in 1..Len(fn_arg.facts) }
    \ KnownFactNames

\* The other facts, by lower-cased name, the last value of each
other_facts ==
    IF other_names = {} THEN None
    ELSE Some([ k \in other_names |-> unwrap(last_value(k)) ])

\* The entry a well-formed line stands for
expected_entry ==
    [ name |-> fn_arg.tail.name,
      ty |-> type_lookup(unwrap(last_value(s_type))),
      size |-> decoded(s_size, decimal),
      modified |-> decoded(s_modify, date_fields),
      created |-> decoded(s_create, date_fields),
      unique |-> decoded(s_unique, verbatim),
      perm |-> decoded(s_perm, perm_of_letters),
      lang |-> decoded(s_lang, verbatim),
      media_type |-> decoded(s_media_type, verbatim),
      charset |-> decoded(s_charset, verbatim),
      unix_owner |-> decoded(s_unix_owner, decimal),
      unix_ownername |-> decoded(s_unix_ownername, verbatim),
      unix_group |-> decoded(s_unix_group, decimal),
      unix_groupname |-> decoded(s_unix_groupname, verbatim),
      unix_mode |-> decoded(s_unix_mode, octal),
      others |-> other_facts ]

\* Facts, one separating space, a non-empty file name, and a type fact
entry_well_formed ==
    /\ fn_arg.tail.sep = << " " >>
    /\ fn_arg.tail.name # << >>
    /\ facts_named(s_type) # {}

\* C12: a well-formed line gives the entry whose name is the text after the
\* separating space, whose type is the lookup of the type value, and whose optional
\* fields hold the decoded value of their fact when the line has it, nothing otherwise.
C12_entry_decoded == (fn_ended /\ entry_well_formed) => fn_ret = ParseOk(expected_entry)

C12_witness ==
    /\ fn_ended
    /\ entry_well_formed
    /\ Len(fn_arg.facts) = 2
    /\ fn_ret.tag = "Ok"
    /\ fn_ret.item.ty = "Dir"
    /\ is_some(fn_ret.item.modified)

----------------------------------------------------------------------------
(* Properties of the feature parse *)

\* A line that is empty or all whitespace
blank(line) == \A i \in 1..Len(line) : is_whitespace(line[i])

\* Where the keyword of a line ends: before the first of the delimiters, or at the end
keyword_end(line, delims) ==
    set_min({ i \in 1..Len(trim(line)) : trim(line)[i] \in delims }
            \cup { Len(trim(line)) + 1 })

\* The keyword of a line and what follows it, both trimmed
keyword(line, delims) == trim(SubSeq(trim(line), 1, keyword_end(line, delims) - 1))

remainder(line, delims) ==
    trim(SubSeq(trim(line), keyword_end(line, delims) + 1, Len(trim(line))))

\* The fact kind a name of an MLST feature stands for
kind_of(name) ==
    CASE to_ascii_lowercase(name) = s_size -> known_fact("Size")
      [] to_ascii_lowercase(name) = s_modify -> known_fact("Modify")
      [] to_ascii_lowercase(name) = s_create -> known_fact("Create")
      [] to_ascii_lowercase(name) = s_type -> known_fact("Ty")
      [] to_ascii_lowercase(name) = s_unique -> known_fact("Unique")
      [] to_ascii_lowercase(name) = s_perm -> known_fact("Perm")
      [] to_ascii_lowercase(name) = s_lang -> known_fact("Lang")
      [] to_ascii_lowercase(name) = s_media_type -> known_fact("MediaType")
      [] to_ascii_lowercase(name) = s_charset -> known_fact("Charset")
      [] to_ascii_lowercase(name) = s_unix_owner -> known_fact("UnixOwner")
      [] to_ascii_lowercase(name) = s_unix_ownername -> known_fact("UnixOwnerName")
      [] to_ascii_lowercase(name) = s_unix_group -> known_fact("UnixGroup")
      [] to_ascii_lowercase(name) = s_unix_groupname -> known_fact("UnixGroupName")
      [] to_ascii_lowercase(name) = s_unix_mode -> known_fact("UnixMode")
      [] OTHER -> [ kind |-> "Other", name |-> to_ascii_lowercase(name) ]

\* One advertised fact: its kind, and whether a '*' ends it
advertised(piece) ==
    IF piece[Len(piece)] = "*" THEN << kind_of(SubSeq(piece, 1, Len(piece) - 1)), TRUE >>
    ELSE << kind_of(piece), FALSE >>

non_empty(piece) == piece # << >>

\* The facts an MLST feature advertises: its non-empty pieces between semicolons
advertised_facts(rem) ==
    [ i \in 1..Len(SelectSeq([ k \in 1..Len(split(rem, ";")) |-> trim(split(rem, ";")[k]) ],
                             non_empty)) |->
          advertised(SelectSeq([ k \in 1..Len(split(rem, ";")) |-> trim(split(rem, ";")[k]) ],
                               non_empty)[i]) ]

\* The lines, not blank, with a keyword
with_keyword(w, delims) ==
    { i \in 1..Len(fn_arg) : ~ blank(fn_arg[i]) /\ keyword(fn_arg[i], delims) = w }

\* The lines with a keyword and, in any case, a remainder
with_keyword_and(w, rem, delims) ==
    { i \in with_keyword(w, delims) : eq_ignore_ascii_case(remainder(fn_arg[i], delims), rem) }

\* A line the parse recognises
recognised(line, delims) ==
    \/ keyword(line, delims) \in { w_CLNT, w_PASV, w_UTF8, w_MDTM, w_SIZE, w_TVFS, w_MLST }
    \/ keyword(line, delims) = w_REST /\ eq_ignore_ascii_case(remainder(line, delims), w_STREAM)
    \/ keyword(line, delims) = w_AUTH /\ eq_ignore_ascii_case(remainder(line, delims), w_TLS)

kept_by_space(line) == ~ blank(line) /\ ~ recognised(line, { " " })

kept_by_whitespace(line) == ~ blank(line) /\ ~ recognised(line, { " ", "\t" })

\* The feature set the lines stand for, the keyword delimited as given
expected_features(delims, kept(_)) ==
    [ clnt |-> with_keyword(w_CLNT, delims) # {},
      pasv |-> with_keyword(w_PASV, delims) # {},
      utf8 |-> with_keyword(w_UTF8, delims) # {},
      mdtm |-> with_keyword(w_MDTM, delims) # {},
      size |-> with_keyword(w_SIZE, delims) # {},
      rest_stream |-> with_keyword_and(w_REST, w_STREAM, delims) # {},
      tvfs |-> with_keyword(w_TVFS, delims) # {},
      mlst |-> IF with_keyword(w_MLST, delims) = {} THEN None
               ELSE Some(advertised_facts(
                        remainder(fn_arg[set_max(with_keyword(w_MLST, delims))], delims))),
      auth_tls |-> with_keyword_and(w_AUTH, w_TLS, delims) # {},
      others |-> SelectSeq(fn_arg, kept) ]

----------------------------------------------------------------------------
(* Properties of the permission decoder *)

PermLetters == { "a", "c", "d", "e", "f", "l", "m", "p", "r", "w" }

\* C14: a string of the ten letters, in any case, order and number, decodes to the
\* set whose booleans are exactly those of its letters (the empty string to the empty
\* set); a string with any other character fails with SyntaxError.
C14_perm_decoded ==
    fn_ended =>
        IF letters(fn_arg) \subseteq PermLetters
        THEN fn_ret = [ tag |-> "Ok", err |-> "", perm |-> perm_of_letters(fn_arg) ]
        ELSE fn_ret.tag = "Err" /\ fn_ret.err = "SyntaxError"

C14_witness ==
    /\ fn_ended
    /\ fn_arg = << "R", "w", "r" >>
    /\ fn_ret.tag = "Ok"
    /\ fn_ret.perm.read
    /\ fn_ret.perm.write
    /\ ~ fn_ret.perm.list


----------------------------------------------------------------------------
(* Properties of the round trip through list::File *)

\* An entry with a size, a modified time and a permission set
round_entry == is_some(fn_arg.item.size) /\ is_some(fn_arg.item.modified)
               /\ is_some(fn_arg.item.perm)

\* What the round trip keeps of an entry
round_trip_keeps(before, after) ==
    /\ is_dir(after.ty) = is_dir(before.ty)
    /\ after.size = before.size
    /\ after.modified = before.modified
    /\ is_some(after.perm)
    /\ unwrap(after.perm).read = unwrap(before.perm).read
    /\ unwrap(after.perm).write = unwrap(before.perm).write
    /\ unwrap(after.perm).list = unwrap(before.perm).list
    /\ is_some(after.unix_mode)
    /\ unwrap(after.unix_mode) % 8 = as_pex(unwrap(before.perm))
    /\ (unwrap(after.unix_mode) \div 8) % 8 = as_pex(unwrap(before.perm))
    /\ unwrap(after.unix_mode) \div 64 = as_pex(unwrap(before.perm))

\* C15 (as stated): list_to_ftp after ftp_to_list, on any entry with a size and a
\* modified time, returns an entry of the same is_dir, size, modified time and read,
\* write and list booleans, whose mode has three groups each equal to as_pex.
C15_round_trip ==
    (fn_ended /\ round_entry) =>
        /\ fn_ret.tag = "Ok"
        /\ round_trip_keeps(fn_arg.item, fn_ret.item)

\* The round trip keeps all of it whenever it returns
C15_round_trip_returned ==
    (fn_ended /\ round_entry /\ fn_ret.tag = "Ok") =>
        round_trip_keeps(fn_arg.item, fn_ret.item)

\* The round trip panics on just the local times that no instant or two instants have
C15_panic_cause ==
    fn_ended =>
        (fn_ret.tag = "Panic") =
        (Cardinality(from_local_datetime(
            secs_from_civil(unwrap_or(fn_arg.item.modified, CivilTime(1970, 1, 1, 0, 0, 0, 0))),
            fn_arg.tz)) # 1)

----------------------------------------------------------------------------
(* Properties of the retry policy *)

\* A call that began with no handle, and whose connect transition succeeded
fresh_connection ==
    /\ returned
    /\ ftp_at_call = None
    /\ transitions # << >>
    /\ transitions[1].tag = "Ok"

\* C16: a call that starts Disconnected and connects issues its command exactly once;
\* a failure of that attempt, recoverable or not, is what the call returns, with no
\* reconnect and no second attempt.
C16_fresh_no_retry ==
    fresh_connection =>
        /\ Len(attempts) = 1
        /\ Len(transitions) = 1
        /\ attempts[1].tag = "Err" => ret = Err(attempts[1].err, 0)

C16_witness ==
    /\ fresh_connection
    /\ Len(attempts) = 1
    /\ attempts[1].tag = "Err"
    /\ is_recoverable(attempts[1].err)
    /\ ret.tag = "Err"

\* The last attempt of the call failed, and no retry is due: the error is not
\* recoverable, or the attempt was itself the retry
final_failure ==
    /\ returned
    /\ attempts # << >>
    /\ attempts[Len(attempts)].tag = "Err"
    /\ ~ is_recoverable(attempts[Len(attempts)].err) \/ Len(attempts) = 2

\* The transitions a call runs before an attempt: the connect when it began with no
\* handle, the reconnect before a retry
transitions_before(n) == (IF is_some(ftp_at_call) THEN 0 ELSE 1) + (n - 1)

\* C17: an attempt that fails with an error not classified recoverable, or a retried
\* attempt that fails, ends the call with that error: no transition and no attempt
\* follows, and the controller keeps the handle the attempt went out on.
C17_failure_returned ==
    final_failure =>
        /\ ret = Err(attempts[Len(attempts)].err, 0)
        /\ Len(transitions) = transitions_before(Len(attempts))
        /\ log[Len(log)].cmd \in { "CDUP", "CWD", "MLSD", "LIST" }
        /\ ~ log[Len(log)].ok
        /\ ftp = Some(log[Len(log)].h)
        /\ Len(attempts) = 1 /\ is_some(ftp_at_call) => ftp = ftp_at_call

C17_witness ==
    /\ final_failure
    /\ Len(attempts) = 1
    /\ ~ is_recoverable(attempts[1].err)
    /\ is_some(ftp_at_call)
    /\ ftp = ftp_at_call

----------------------------------------------------------------------------
(* Properties of the connect and reconnect transition *)

\* The steps of a transition under the settings and the feature cache, in order
transition_steps ==
    << "CONNECT" >>
    \o (IF settings.use_feat /\ ~ has_feat THEN << "FEAT" >> ELSE << >>)
    \o (IF settings.use_secure THEN << "TlsConnector", "AUTH TLS" >> ELSE << >>)
    \o << "LOGIN" >>
    \o (IF is_some(settings.remote_dir) THEN << "CWD" >> ELSE << >>)

\* Where a trace has the start of a transition
transition_starts(l) == { p \in 1..Len(l) : l[p].cmd = "reconnect" }

\* The entries of a trace after position p, n of them at most
steps_after(l, p, n) == SubSeq(l, p + 1, IF Len(l) < p + n THEN Len(l) ELSE p + n)

\* The steps of a transition that started at p of trace l and led from handle
\* before to handle after, result being what the transition returned: the handle is
\* discarded first, the steps follow in order on the session being opened, each
\* after the success of the one before; after the last step the handle is installed
\* and the command goes out, and after a failed step nothing follows.
steps_in_order(l, p, seg, before, after, result) ==
    /\ l[p].ok
    /\ p = IF is_some(before) THEN 2 ELSE 1
    /\ seg # << >>
    /\ \A i \in 1..Len(seg) : seg[i].cmd = transition_steps[i] /\ seg[i].h = sessions + 1
    /\ \A i \in 1..(Len(seg) - 1) : seg[i].ok
    /\ IF seg[Len(seg)].ok
       THEN /\ Len(seg) = Len(transition_steps)
            /\ result.tag = "Ok"
            /\ after = Some(sessions + 1)
            /\ Len(l) = p + Len(seg) + 1
            /\ l[Len(l)].h = sessions + 1
       ELSE /\ Len(l) = p + Len(seg)
            /\ result.tag = "Err"
            /\ after = None

\* C18: a transition discards the handle, opens a session, issues FEAT if enabled and
\* not cached, upgrades to TLS if configured, logs in, changes to the starting
\* directory if configured, and then installs the handle; no step follows a failed
\* one, and the handle changes only by a transition, to the session whose steps all
\* succeeded.
C18_transition_order ==
    [][ /\ Len(transitions') = Cardinality(transition_starts(log'))
        /\ transition_starts(log') = {} => ftp' = ftp
        /\ \A p \in transition_starts(log') :
               steps_in_order(log', p, steps_after(log', p, Len(transition_steps)),
                              ftp, ftp', transitions'[1]) ]_vars

C18_witness ==
    /\ returned
    /\ is_some(ftp_at_call)
    /\ settings.use_feat
    /\ settings.use_secure
    /\ is_some(settings.remote_dir)
    /\ transitions # << >>
    /\ transitions[1].tag = "Ok"
    /\ Len(log) = 8
    /\ log[2].cmd = "reconnect"
    /\ log[5].cmd = "AUTH TLS"
    /\ log[6].cmd = "LOGIN"
    /\ log[7].cmd = "CWD"
    /\ ftp = Some(2)

----------------------------------------------------------------------------
(* Properties of the feature cache *)

\* C19: once a FEAT has succeeded the cached feature set and its flag never change
\* again, whatever call, reconnect or failure follows; and as long as no FEAT has
\* succeeded (FEAT disabled, or failed) the feature set is the default.
C19_features_cached ==
    /\ [](has_feat <=> feat_ok > 0)
    /\ [](~ has_feat => features = FeaturesDefault)
    /\ [][has_feat => (has_feat' /\ features' = features)]_vars

C19_witness ==
    /\ returned
    /\ has_feat
    /\ features # FeaturesDefault
    /\ is_some(ftp_at_call)
    /\ transitions # << >>
    /\ sessions > 1

----------------------------------------------------------------------------
(* Properties of the file name of a line *)

\* C20: the facts end at the first space read with an empty name buffer, and the
\* name of a returned entry is all the text after that space, whatever characters it
\* holds; a line without that space, or with nothing after it, fails with SyntaxError.
C20_name_verbatim ==
    fn_ended =>
        /\ fn_ret.tag = "Ok" =>
               /\ fn_arg.tail.sep = << SPACE >>
               /\ fn_ret.item.name = fn_arg.tail.name
        /\ (fn_arg.tail.sep = << >> \/ fn_arg.tail.name = << >>) =>
               fn_ret = ParseErr("SyntaxError")

C20_witness ==
    /\ fn_ended
    /\ fn_ret.tag = "Ok"
    /\ fn_arg.tail.sep = << SPACE >>
    /\ SEMICOLON \in { fn_arg.tail.name[i] : i \in 1..Len(fn_arg.tail.name) }
    /\ EQUAL \in { fn_arg.tail.name[i] : i \in 1..Len(fn_arg.tail.name) }
    /\ SPACE \in { fn_arg.tail.name[i] : i \in 1..Len(fn_arg.tail.name) }
    /\ fn_ret.item.name = fn_arg.tail.name

----------------------------------------------------------------------------
(* Properties of the delimiters of a line *)

\* What the machine of the facts section makes of a text read from Name state with
\* empty buffers: "reject" at a misplaced delimiter, "break" at the space that ends
\* the facts, "end" when the text runs out; with the position, and the pairs closed
Scanned(verdict, at, pairs) == [ verdict |-> verdict, at |-> at, pairs |-> pairs ]

RECURSIVE fsm_name(_, _, _, _)
RECURSIVE fsm_value(_, _, _, _, _)

\* Name state: a space ends the facts when the name is empty and is misplaced
\* otherwise, a semicolon is misplaced, '=' leads to Value state
fsm_name(s, i, name, pairs) ==
    IF i > Len(s) THEN Scanned("end", i, pairs)
    ELSE IF s[i] = SPACE
    THEN Scanned(IF name = << >> THEN "break" ELSE "reject", i, pairs)
    ELSE IF s[i] = SEMICOLON THEN Scanned("reject", i, pairs)
    ELSE IF s[i] = EQUAL THEN fsm_value(s, i + 1, name, << >>, pairs)
    ELSE fsm_name(s, i + 1, Append(name, s[i]), pairs)

\* Value state: a space and '=' are misplaced, ';' closes the pair, which is misplaced
\* when the name is empty, and leads to Name state with both buffers empty
fsm_value(s, i, name, value, pairs) ==
    IF i > Len(s) THEN Scanned("end", i, pairs)
    ELSE IF s[i] = SPACE \/ s[i] = EQUAL THEN Scanned("reject", i, pairs)
    ELSE IF s[i] = SEMICOLON
    THEN IF name = << >> THEN Scanned("reject", i, pairs)
         ELSE fsm_name(s, i + 1, << >>, Append(pairs, Pair(name, value)))
    ELSE fsm_value(s, i + 1, name, Append(value, s[i]), pairs)

\* The machine on the characters of the input
scanned == fsm_name(fn_arg.piece, 1, << >>, << >>)

\* The mapping of the pairs closed: each name with the value of its last pair
pairs_map(pairs) ==
    IF pairs = << >> THEN None
    ELSE Some([ k \in { pairs[i].name : i \in 1..Len(pairs) } |->
                  pairs[set_max({ i \in 1..Len(pairs) : pairs[i].name = k })].value ])

\* C21: a line whose facts section has a misplaced delimiter (a space after a
\* non-empty name, a semicolon in Name state, a space or '=' in a value, a ';' closing
\* a pair with an empty name) fails with SyntaxError; an entry is returned only when
\* the machine went Name to Value on '=' and back on ';' up to the space that ends the
\* facts, and its pairs are those read with both buffers cleared after each.
C21_misplaced_delimiter ==
    fn_ended =>
        /\ scanned.verdict = "reject" => fn_ret = ParseErr("SyntaxError")
        /\ fn_ret.tag = "Ok" =>
               /\ scanned.verdict = "break"
               /\ fn_ret.item.name = SubSeq(fn_arg.piece, scanned.at + 1, Len(fn_arg.piece))
               /\ fn_ret.item.others = pairs_map(scanned.pairs)

C21_witness ==
    /\ fn_ended
    /\ fn_arg.prefix # << >>
    /\ fn_arg.piece = << "a", EQUAL, EQUAL, SPACE, "a" >>
    /\ scanned.verdict = "reject"
    /\ scanned.at = 3
    /\ fn_ret = ParseErr("SyntaxError")

----------------------------------------------------------------------------
(* Properties of the facts the parser does not know *)

\* The facts of the line, in any case, that have none of the fourteen names
unrecognized ==
    { i \in 1..Len(fn_arg.facts) : to_ascii_lowercase(fn_arg.facts[i].name) \notin KnownFactNames }

\* The last of the facts of the line with a name, compared in lower case
last_occurrence(k) ==
    set_max({ i \in unrecognized : to_ascii_lowercase(fn_arg.facts[i].name) = k })

\* C22: the entry of a line holds each fact with none of the fourteen names in its
\* mapping, under the lower-cased name and with the raw value of the last fact of
\* that name in any case; the mapping is absent when the line has no such fact.
C22_unrecognized_facts ==
    (fn_ended /\ fn_ret.tag = "Ok") =>
        IF unrecognized = {} THEN fn_ret.item.others = None
        ELSE /\ is_some(fn_ret.item.others)
             /\ DOMAIN unwrap(fn_ret.item.others) =
                    { to_ascii_lowercase(fn_arg.facts[i].name) : i \in unrecognized }
             /\ \A k \in DOMAIN unwrap(fn_ret.item.others) :
                    unwrap(fn_ret.item.others)[k] = fn_arg.facts[last_occurrence(k)].value

C22_witness ==
    /\ fn_ended
    /\ fn_ret.tag = "Ok"
    /\ Cardinality(unrecognized) = 2
    /\ fn_arg.facts[1].name = << "x" >>
    /\ fn_arg.facts[2].name = << "X" >>
    /\ fn_ret.item.others = Some([ k \in { << "x" >> } |-> << "Z" >> ])

----------------------------------------------------------------------------
(* Properties of the mode list_to_ftp builds *)

\* The bits of the owner (1), the group (2) and the others (3) of the entry converted
class_bits(who) == fn_arg.file.pex[who]

\* C23: the mode of the entry list_to_ftp returns is the owner's bits, the group's
\* bits shifted by three and the others' bits shifted by six, each class's bits being
\* read 4, write 2, execute 1; it is in 0..511, and the read, write and list booleans
\* are the owner's read, write and execute bits.
C23_mode_packed ==
    fn_ended =>
        /\ fn_ret.item.unix_mode = Some(class_bits(1) + class_bits(2) * 8 + class_bits(3) * 64)
        /\ unwrap(fn_ret.item.unix_mode) \in 0..511
        /\ unwrap(fn_ret.item.perm).read = (class_bits(1) \in { 4, 5, 6, 7 })
        /\ unwrap(fn_ret.item.perm).write = (class_bits(1) \in { 2, 3, 6, 7 })
        /\ unwrap(fn_ret.item.perm).list = (class_bits(1) \in { 1, 3, 5, 7 })

C23_witness ==
    /\ fn_ended
    /\ fn_arg.file.pex = << 6, 4, 1 >>
    /\ fn_ret.item.unix_mode = Some(102)
    /\ unwrap(fn_ret.item.perm).read
    /\ unwrap(fn_ret.item.perm).write
    /\ ~ unwrap(fn_ret.item.perm).list

----------------------------------------------------------------------------
(* Properties of the working directory across transitions *)

\* The entries of a trace that change directory, from the start of a transition up
\* to, and without, the command that follows it
directory_changes(l) ==
    { i \in 1..(Len(l) - 1) :
          /\ l[i].cmd \in { "CWD", "CDUP" }
          /\ \E p \in transition_starts(l) : p < i }

\* Where the command of the call took the session, if it was a directory change
\* that succeeded
moved_by(l, op) ==
    IF op \in { "cdup", "chdir" } /\ l[Len(l)].ok
    THEN Some(target(l[Len(l)].cmd, l[Len(l)].arg))
    ELSE None

\* C24: a transition changes directory only to the configured starting directory,
\* and never to where an earlier chdir() or cdup() went: after a transition that
\* succeeded the session is in the starting directory (the server's default when
\* none is configured), moved from there by the command of the call alone.
C24_starting_directory ==
    [][ (transitions' # << >> /\ transitions'[1].tag = "Ok") =>
            /\ \A i \in directory_changes(log') :
                   /\ log'[i].cmd = "CWD"
                   /\ Some(log'[i].arg) = settings.remote_dir
            /\ session_dir'.base = settings.remote_dir
            /\ session_dir'.last = moved_by(log', call_op) ]_vars

C24_witness ==
    /\ returned
    /\ call_op = "list"
    /\ is_some(ftp_at_call)
    /\ transitions # << >>
    /\ transitions[1].tag = "Ok"
    /\ ret.tag = "Ok"
    /\ is_some(navigated)
    /\ is_some(settings.remote_dir)
    /\ session_dir = WorkDir(settings.remote_dir, None)

============================================================================
